---- MODULE Spec2Model ----
(***************************************************************************)
(* taskd: the register-machine interpreter (sm_execute), its job queue and *)
(* persistent worker thread (sm_worker, sm_submit, sm_wait, sm_get_reg,    *)
(* sm_thread_stop) and the recipe decoder (proto_parse_recipe).            *)
(*                                                                         *)
(* Critical sections under ctx->lock are single atomic actions; every      *)
(* unlocked step of the worker (one interpreted instruction, free(j)) is   *)
(* an action of its own, so the client thread can interleave between them. *)
(* Allocation is assumed to succeed everywhere except the job record of    *)
(* sm_submit, whose failure path is modelled.                              *)
(***************************************************************************)
EXTENDS Integers, Sequences, FiniteSets, TLC

(* ---------------------------------------------------------------- bounds *)

\* Jobs a client may submit in one run of the executor specification.
MaxJobs == 2

\* Connections the daemon accepts in one run of the daemon specification.
MaxSessions == 2

\* Connections the daemon accepts in one run of the three-session
\* specification.
MaxSerial == 3

\* Longest recipe array drawn in the interpreter specification.
MaxRecipeLen == 2

(* ------------------------------------------------------- program constants *)

SM_REG_COUNT == 8

\* A register is a machine word (void *): an integer, or the address of a
\* heap string.  NULL, integer 0 and boolean false are the same word.
IntV(n) == [k |-> "int", n |-> n]

StrV(a) == [k |-> "str", a |-> a]

NULL == IntV(0)

\* Variant of BoolV that stores 1 whatever the primitive reported.
BoolV_one(b) == IntV(1)

BoolV(b) == IntV(IF b THEN 1 ELSE 0)

IsStr(v) == v.k = "str"

\* Where the model places heap addresses in the word space: far above the
\* small integers a recipe loads.
PtrBase == 1000

\* (uintptr_t)reg
WordOf(v) == IF v.k = "str" THEN PtrBase + v.a ELSE v.n

\* (uintptr_t)reg != 0, also the test `p ? ... : ...` on a register read as
\* a pointer.
Truthy(v) == WordOf(v) /= 0

reg_valid(idx) == idx >= 0 /\ idx < SM_REG_COUNT

RegIdx == 0 .. (SM_REG_COUNT - 1)

(* ------------------------------------------------------------ JSON values *)

JNum(n) == [t |-> "num", n |-> n]

JStr(s) == [t |-> "str", s |-> s]

JObj(f) == [t |-> "obj", f |-> f]

JArr(a) == [t |-> "arr", a |-> a]

\* The NULL that cJSON_GetObjectItemCaseSensitive returns for an absent field.
JNone == [t |-> "none"]

GetObjectItem(obj, name) ==
  IF name \in DOMAIN obj.f THEN obj.f[name] ELSE JNone

IsNumber(j) == j.t = "num"

IsString(j) == j.t = "str"

IsObject(j) == j.t = "obj"

IsArray(j) == j.t = "arr"

(* ----------------------------------------------------------- opcode table *)

OpMap ==
  << [name |-> "SM_OP_LOAD_CONST", code |-> "LOAD_CONST"],
     [name |-> "SM_OP_FS_CREATE", code |-> "FS_CREATE"],
     [name |-> "SM_OP_FS_DELETE", code |-> "FS_DELETE"],
     [name |-> "SM_OP_FS_COPY", code |-> "FS_COPY"],
     [name |-> "SM_OP_FS_MOVE", code |-> "FS_MOVE"],
     [name |-> "SM_OP_FS_WRITE", code |-> "FS_WRITE"],
     [name |-> "SM_OP_FS_READ", code |-> "FS_READ"],
     [name |-> "SM_OP_FS_UNPACK", code |-> "FS_UNPACK"],
     [name |-> "SM_OP_FS_HASH", code |-> "FS_HASH"],
     [name |-> "SM_OP_FS_LIST", code |-> "FS_LIST"],
     [name |-> "SM_OP_EQ", code |-> "EQ"],
     [name |-> "SM_OP_NOT", code |-> "NOT"],
     [name |-> "SM_OP_AND", code |-> "AND"],
     [name |-> "SM_OP_OR", code |-> "OR"],
     [name |-> "SM_OP_INDEX_SELECT", code |-> "INDEX_SELECT"],
     [name |-> "SM_OP_RANDOM_RANGE", code |-> "RANDOM_RANGE"],
     [name |-> "SM_OP_PATH_JOIN", code |-> "PATH_JOIN"],
     [name |-> "SM_OP_RANDOM_WALK", code |-> "RANDOM_WALK"],
     [name |-> "SM_OP_DIR_CONTAINS", code |-> "DIR_CONTAINS"],
     [name |-> "SM_OP_RAND_SEED", code |-> "RAND_SEED"],
     [name |-> "SM_OP_REPORT", code |-> "REPORT"],
     [name |-> "SM_OP_RETURN", code |-> "RETURN"] >>

\* Variant of opcode_from_string that returns the code of the entry after
\* the matching one.
opcode_from_string_next(s) ==
  LET hits == {i \in DOMAIN OpMap : OpMap[i].name = s}
  IN IF hits = {} THEN ""
     ELSE LET first == CHOOSE i \in hits : \A h \in hits : i <= h
          IN OpMap[(first % Len(OpMap)) + 1].code

\* The opcode named s, or "" when the table has no such name.
opcode_from_string(s) ==
  LET hits == {i \in DOMAIN OpMap : OpMap[i].name = s}
  IN IF hits = {} THEN ""
     ELSE OpMap[CHOOSE i \in hits : \A h \in hits : i <= h].code

\* Per opcode: the JSON field names read from "data" and the struct fields
\* they are stored in, in the order the decoder reads them.
IntFields(code) ==
  CASE code = "FS_CREATE" -> << <<"dest", "dest">>, <<"path", "path">>, <<"type", "type">> >>
    [] code = "FS_DELETE" -> << <<"dest", "dest">>, <<"path", "path">> >>
    [] code = "FS_COPY" -> << <<"dest", "dest">>, <<"src", "src">>, <<"dst", "dst">> >>
    [] code = "FS_MOVE" -> << <<"dest", "dest">>, <<"src", "src">>, <<"dst", "dst">> >>
    [] code = "FS_WRITE" ->
         << <<"dest", "dest">>, <<"path", "path">>, <<"content", "content">>, <<"mode", "mode">> >>
    [] code = "FS_READ" -> << <<"dest", "dest">>, <<"path", "path">> >>
    [] code = "FS_UNPACK" -> << <<"tar_path", "tar_path">>, <<"dest", "dest">> >>
    [] code = "FS_HASH" -> << <<"dest", "dest">>, <<"path", "path">> >>
    [] code = "FS_LIST" -> << <<"dest", "dest">>, <<"path", "path">> >>
    [] code = "EQ" -> << <<"dest", "dest">>, <<"lhs", "lhs">>, <<"rhs", "rhs">> >>
    [] code = "NOT" -> << <<"dest", "dest">>, <<"src", "src">> >>
    [] code = "AND" -> << <<"dest", "dest">>, <<"lhs", "lhs">>, <<"rhs", "rhs">> >>
    [] code = "OR" -> << <<"dest", "dest">>, <<"lhs", "lhs">>, <<"rhs", "rhs">> >>
    [] code = "INDEX_SELECT" -> << <<"dest", "dest">>, <<"list", "list">>, <<"index", "index">> >>
    [] code = "RANDOM_RANGE" -> << <<"dest", "dest">>, <<"min", "min">>, <<"max", "max">> >>
    [] code = "PATH_JOIN" -> << <<"dest", "dest">>, <<"base", "base">>, <<"name", "name">> >>
    [] code = "RANDOM_WALK" -> << <<"dest", "dest">>, <<"root", "root">>, <<"depth", "depth">> >>
    [] code = "DIR_CONTAINS" -> << <<"dest", "dest">>, <<"a", "dir_a">>, <<"b", "dir_b">> >>
    [] code = "RAND_SEED" -> << <<"seed", "seed">> >>
    [] code = "RETURN" -> << <<"value", "value">> >>
    [] OTHER -> << >>

\* A NULL cur->data.
NullData == [null |-> TRUE]

IsNullData(d) == "null" \in DOMAIN d

(* ------------------------------------------------------------------- heap *)

\* The heap of C strings: address a is index a of the sequence.  src tells
\* who allocated the string: "const" (strdup of a LOAD_CONST literal in the
\* decoder) or "fs" (a buffer returned by a primitive of fs_utils.h); freed
\* tells whether the string has been passed to free.
HeapAlloc(heap, chars, src) ==
  Append(heap, [s |-> chars, src |-> src, freed |-> FALSE])

(* --------------------------------------------------------- recipe decoder *)

\* The payload built for one array element whose opcode is `code`:
\* NullData when a field of "data" is absent or ill-typed (free(d); break).
ParseData(code, data, heap) ==
  IF code = "LOAD_CONST" THEN
    LET dest == GetObjectItem(data, "dest")
        val == GetObjectItem(data, "value")
    IN IF ~IsNumber(dest) \/ (~IsString(val) /\ ~IsNumber(val))
       THEN [data |-> NullData, heap |-> heap]
       ELSE IF IsString(val)
            THEN [data |-> [dest |-> dest.n, value |-> StrV(Len(heap) + 1)],
                  heap |-> HeapAlloc(heap, val.s, "const")]
            ELSE [data |-> [dest |-> dest.n, value |-> IntV(val.n)], heap |-> heap]
  ELSE IF code = "REPORT" THEN
    LET regs == GetObjectItem(data, "regs")
    IN IF ~IsArray(regs) THEN [data |-> NullData, heap |-> heap]
       ELSE IF Len(regs.a) <= 0 \/ Len(regs.a) > SM_REG_COUNT
            THEN [data |-> NullData, heap |-> heap]
       ELSE IF \E i \in DOMAIN regs.a : ~IsNumber(regs.a[i])
            THEN [data |-> NullData, heap |-> heap]
       ELSE [data |-> [count |-> Len(regs.a),
                       regs |-> [i \in DOMAIN regs.a |-> regs.a[i].n]],
             heap |-> heap]
  ELSE
    LET fs == IntFields(code)
        jname(f) == (CHOOSE i \in DOMAIN fs : fs[i][2] = f)
    IN IF \E i \in DOMAIN fs : ~IsNumber(GetObjectItem(data, fs[i][1]))
       THEN [data |-> NullData, heap |-> heap]
       ELSE [data |-> [f \in {fs[i][2] : i \in DOMAIN fs} |->
                         GetObjectItem(data, fs[jname(f)][1]).n],
             heap |-> heap]

\* One element of the recipe array: skipped (keep = FALSE) when it is not an
\* object, "op" is not a string, "data" is not an object or the opcode name
\* is unknown; appended otherwise, with NullData when the payload is refused.
ParseItem(item, heap) ==
  IF ~IsObject(item) THEN [keep |-> FALSE, heap |-> heap]
  ELSE
    LET op == GetObjectItem(item, "op")
        data == GetObjectItem(item, "data")
    IN IF ~IsString(op) \/ ~IsObject(data) THEN [keep |-> FALSE, heap |-> heap]
       ELSE LET code == opcode_from_string(op.s)
            IN IF code = "" THEN [keep |-> FALSE, heap |-> heap]
               ELSE LET pd == ParseData(code, data, heap)
                    IN [keep |-> TRUE, ins |-> [op |-> code, data |-> pd.data],
                        heap |-> pd.heap]

\* Variant of ParseItems that gives up the whole array on a skipped element.
ParseItems_strict(items, acc, heap) ==
  IF \E i \in DOMAIN items : ~ParseItem(items[i], heap).keep
  THEN [list |-> << >>, heap |-> heap]
  ELSE [list |-> acc \o [i \in DOMAIN items |-> ParseItem(items[i], heap).ins],
        heap |-> heap]

RECURSIVE ParseItems(_, _, _)
ParseItems(items, acc, heap) ==
  IF items = << >> THEN [list |-> acc, heap |-> heap]
  ELSE LET r == ParseItem(Head(items), heap)
       IN ParseItems(Tail(items), IF r.keep THEN Append(acc, r.ins) ELSE acc, r.heap)

\* Variant of proto_parse_recipe that takes a lone object for a one-element
\* array.
proto_parse_recipe_lax(json, heap) ==
  IF IsObject(json) THEN ParseItems(<< json >>, << >>, heap)
  ELSE IF ~IsArray(json) THEN [list |-> << >>, heap |-> heap]
  ELSE ParseItems(json.a, << >>, heap)

\* The instruction list of a recipe message; << >> is the NULL list.
proto_parse_recipe(json, heap) ==
  IF ~IsArray(json) THEN [list |-> << >>, heap |-> heap]
  ELSE ParseItems(json.a, << >>, heap)

(* ------------------------------------------- pure helpers of fs_utils.h *)

\* strchr(start, '\n'): the first index >= from holding a newline, 0 if none.
RECURSIVE FindNl(_, _)
FindNl(s, from) ==
  IF from > Len(s) THEN 0
  ELSE IF s[from] = "\n" THEN from
  ELSE FindNl(s, from + 1)

\* The while loop of list_index: skip idx lines; 0 stands for `return NULL`.
RECURSIVE SkipLines(_, _, _)
SkipLines(s, start, idx) ==
  IF idx > 0 /\ start <= Len(s)
  THEN LET nl == FindNl(s, start)
       IN IF nl = 0 THEN 0 ELSE SkipLines(s, nl + 1, idx - 1)
  ELSE start

\* Variant of list_index that counts segments from one.
list_index_fromone(list, idx) ==
  LET start == SkipLines(list, 1, idx - 1)
  IN IF start = 0 \/ start > Len(list) THEN [ok |-> FALSE, s |-> << >>]
     ELSE LET end == FindNl(list, start)
              last == IF end = 0 THEN Len(list) ELSE end - 1
          IN [ok |-> TRUE, s |-> SubSeq(list, start, last)]

list_index(list, idx) ==
  LET start == SkipLines(list, 1, idx)
  IN IF start = 0 \/ start > Len(list) THEN [ok |-> FALSE, s |-> << >>]
     ELSE LET end == FindNl(list, start)
              last == IF end = 0 THEN Len(list) ELSE end - 1
          IN [ok |-> TRUE, s |-> SubSeq(list, start, last)]

\* Variant of path_join that inserts the separator whatever base ends with.
path_join_always(base, name) == base \o << "/" >> \o name

path_join(base, name) ==
  LET lb == Len(base)
  IN IF lb > 0 /\ base[lb] /= "/" THEN base \o << "/" >> \o name
     ELSE base \o name

\* Variant of rand_range that takes the remainder by one more than the width.
rand_range_wide(min, max, r) ==
  LET lo == IF max < min THEN max ELSE min
      hi == IF max < min THEN min ELSE max
      diff == hi - lo + 2
  IN IF diff <= 0 THEN lo ELSE (r % diff) + lo

\* rand_range with r the value rand() returned.
rand_range(min, max, r) ==
  LET lo == IF max < min THEN max ELSE min
      hi == IF max < min THEN min ELSE max
      diff == hi - lo + 1
  IN IF diff <= 0 THEN lo ELSE (r % diff) + lo

(* ------------------------------------------------------------ interpreter *)

\* What the environment decides for one instruction: whether a filesystem
\* primitive succeeds (ok) and the string it returns (s), the value rand()
\* returns (r), and whether a primitive handed a non-pointer word faults
\* (crash).
NoOutcome == [ok |-> FALSE, s |-> << >>, r |-> 0, crash |-> FALSE]

\* Largest value rand() returns in the model.
MaxRand == 2

\* Stands for 2^64 in the cast (size_t)(uintptr_t) of a negative word.
SizeWrap == 1000000

ToSizeT(n) == IF n >= 0 THEN n ELSE SizeWrap + n

\* Opcodes whose case reads registers as `const char *` and hands them to a
\* function of fs_utils.h, with the struct fields read, in argument order.
StrInputs(op) ==
  CASE op = "FS_CREATE" -> << "path", "type" >>
    [] op = "FS_DELETE" -> << "path" >>
    [] op = "FS_COPY" -> << "src", "dst" >>
    [] op = "FS_MOVE" -> << "src", "dst" >>
    [] op = "FS_WRITE" -> << "path", "content", "mode" >>
    [] op = "FS_READ" -> << "path" >>
    [] op = "FS_UNPACK" -> << "tar_path", "dest" >>
    [] op = "FS_HASH" -> << "path" >>
    [] op = "FS_LIST" -> << "path" >>
    [] op = "INDEX_SELECT" -> << "list" >>
    [] op = "PATH_JOIN" -> << "base", "name" >>
    [] op = "RANDOM_WALK" -> << "root" >>
    [] op = "DIR_CONTAINS" -> << "dir_a", "dir_b" >>
    [] OTHER -> << >>

BoolOps == {"FS_CREATE", "FS_DELETE", "FS_COPY", "FS_MOVE", "FS_WRITE", "DIR_CONTAINS"}

StrOps == {"FS_READ", "FS_HASH", "FS_LIST", "INDEX_SELECT", "PATH_JOIN", "RANDOM_WALK"}

PrimOps == BoolOps \cup StrOps \cup {"FS_UNPACK"}

LogicOps == {"EQ", "NOT", "AND", "OR"}

\* The reg_valid tests that open a case: every field of the payload is a
\* register index, except the literal of LOAD_CONST.
OperandsValid(ins) ==
  \A f \in (DOMAIN ins.data) \ {"value"} : reg_valid(ins.data[f])

InputArgs(ins, regs) ==
  LET f == StrInputs(ins.op)
  IN [i \in DOMAIN f |-> regs[ins.data[f[i]]]]

\* What executing ins asks of the environment:
\*   "none"  no function of fs_utils.h is called;
\*   "pure"  path_join or list_index on valid strings;
\*   "env"   a filesystem primitive on valid strings;
\*   "wild"  a function called with a non-null word that is no string
\*           (the cast of an integer register to const char *);
\*   "rand"  rand_range.
CallKind(ins, regs) ==
  IF ins.op \notin (PrimOps \cup {"RANDOM_RANGE"}) THEN "none"
  ELSE IF IsNullData(ins.data) THEN "none"
  ELSE IF ~OperandsValid(ins) THEN "none"
  ELSE IF ins.op = "RANDOM_RANGE" THEN "rand"
  ELSE LET args == InputArgs(ins, regs)
       IN IF \E i \in DOMAIN args : ~Truthy(args[i]) THEN "none"
          ELSE IF \E i \in DOMAIN args : ~IsStr(args[i]) THEN "wild"
          ELSE IF ins.op \in {"PATH_JOIN", "INDEX_SELECT"} THEN "pure"
          ELSE "env"

StepResult(regs, heap, halt, val, calls, crash) ==
  [regs |-> regs, heap |-> heap, halt |-> halt, val |-> val,
   calls |-> calls, crash |-> crash]

NoEffect(regs, heap) == StepResult(regs, heap, FALSE, 0, << >>, FALSE)

\* The cases of sm_execute that call into fs_utils.h, operands validated.
ExecPrim(ins, regs, heap, o) ==
  LET a == ins.data
      args == InputArgs(ins, regs)
      kind == CallKind(ins, regs)
      called == kind \in {"pure", "env", "wild"}
      res ==
        IF kind = "pure" /\ ins.op = "PATH_JOIN"
        THEN [ok |-> TRUE, s |-> path_join(heap[args[1].a].s, heap[args[2].a].s)]
        ELSE IF kind = "pure"
        THEN list_index(heap[args[1].a].s, ToSizeT(WordOf(regs[a.index])))
        ELSE IF ins.op = "RANDOM_WALK" /\ WordOf(regs[a.depth]) < 0
        THEN [ok |-> FALSE, s |-> << >>]
        ELSE [ok |-> o.ok, s |-> o.s]
      call == [op |-> ins.op, args |-> args,
               ret |-> IF kind = "wild" /\ o.crash THEN "fault"
                       ELSE IF res.ok THEN "ok" ELSE "fail"]
      calls == IF called THEN << call >> ELSE << >>
  IN IF kind = "wild" /\ o.crash
     THEN StepResult(regs, heap, FALSE, 0, calls, TRUE)
     ELSE IF ins.op \in BoolOps
     THEN StepResult([regs EXCEPT ![a.dest] = BoolV(called /\ res.ok)],
                     heap, FALSE, 0, calls, FALSE)
     ELSE IF ins.op \in StrOps
     THEN IF called /\ res.ok
          THEN StepResult([regs EXCEPT ![a.dest] = StrV(Len(heap) + 1)],
                          HeapAlloc(heap, res.s, "fs"), FALSE, 0, calls, FALSE)
          ELSE StepResult([regs EXCEPT ![a.dest] = NULL], heap, FALSE, 0, calls, FALSE)
     ELSE StepResult(regs, heap, FALSE, 0, calls, FALSE)

\* Variant of ExecLogic in which NOT stores the truthiness of its operand.
ExecLogic_nottruth(ins, regs) ==
  LET a == ins.data
  IN IF ins.op = "EQ" THEN BoolV(WordOf(regs[a.lhs]) = WordOf(regs[a.rhs]))
     ELSE IF ins.op = "NOT" THEN BoolV(Truthy(regs[a.src]))
     ELSE IF ins.op = "AND" THEN BoolV(Truthy(regs[a.lhs]) /\ Truthy(regs[a.rhs]))
     ELSE BoolV(Truthy(regs[a.lhs]) \/ Truthy(regs[a.rhs]))

\* Variant of ExecLogic in which EQ holds only between non-zero words.
ExecLogic_eqnz(ins, regs) ==
  LET a == ins.data
  IN IF ins.op = "EQ"
     THEN BoolV(WordOf(regs[a.lhs]) = WordOf(regs[a.rhs]) /\ Truthy(regs[a.lhs]))
     ELSE IF ins.op = "NOT" THEN BoolV(~Truthy(regs[a.src]))
     ELSE IF ins.op = "AND" THEN BoolV(Truthy(regs[a.lhs]) /\ Truthy(regs[a.rhs]))
     ELSE BoolV(Truthy(regs[a.lhs]) \/ Truthy(regs[a.rhs]))

\* EQ, NOT, AND, OR on the words of the registers.
ExecLogic(ins, regs) ==
  LET a == ins.data
  IN IF ins.op = "EQ" THEN BoolV(WordOf(regs[a.lhs]) = WordOf(regs[a.rhs]))
     ELSE IF ins.op = "NOT" THEN BoolV(~Truthy(regs[a.src]))
     ELSE IF ins.op = "AND" THEN BoolV(Truthy(regs[a.lhs]) /\ Truthy(regs[a.rhs]))
     ELSE BoolV(Truthy(regs[a.lhs]) \/ Truthy(regs[a.rhs]))

\* Variant of ExecLoadConst that wraps the index instead of testing it.
ExecLoadConst_wrap(ins, regs, heap) ==
  LET a == ins.data
  IN IF IsNullData(a) THEN NoEffect(regs, heap)
     ELSE StepResult([regs EXCEPT ![a.dest % SM_REG_COUNT] = a.value],
                     heap, FALSE, 0, << >>, FALSE)

ExecLoadConst(ins, regs, heap) ==
  LET a == ins.data
  IN IF IsNullData(a) THEN NoEffect(regs, heap)
     ELSE IF ~reg_valid(a.dest) THEN NoEffect(regs, heap)
     ELSE StepResult([regs EXCEPT ![a.dest] = a.value], heap, FALSE, 0, << >>, FALSE)

\* Variant of ExecReturn that posts the value but lets the loop go on.
ExecReturn_nohalt(ins, regs, heap) ==
  LET a == ins.data
      val == IF IsNullData(a) THEN 0 ELSE a.value
  IN StepResult(regs, heap, FALSE, val, << >>, FALSE)

\* Variant of ExecReturn that skips a RETURN without payload.
ExecReturn_skipnull(ins, regs, heap) ==
  LET a == ins.data
  IN IF IsNullData(a) THEN NoEffect(regs, heap)
     ELSE StepResult(regs, heap, TRUE, a.value, << >>, FALSE)

ExecReturn(ins, regs, heap) ==
  LET a == ins.data
      val == IF IsNullData(a) THEN 0 ELSE a.value
  IN StepResult(regs, heap, TRUE, val, << >>, FALSE)

\* One iteration of the while loop of sm_execute, outside the RETURN case's
\* writes to current_ctx (those are in the worker's action): the register
\* file and heap after the instruction, whether the loop ends (halt) and
\* with which value, the fs_utils.h calls made (each with what it returned:
\* "ok", "fail", or "fault" when it never returned), and whether the process
\* died.
ExecInstr(ins, regs, heap, o) ==
  LET a == ins.data
  IN CASE ins.op = "LOAD_CONST" -> ExecLoadConst(ins, regs, heap)
       [] ins.op \in PrimOps ->
            IF IsNullData(a) THEN NoEffect(regs, heap)
            ELSE IF ~OperandsValid(ins) THEN NoEffect(regs, heap)
            ELSE ExecPrim(ins, regs, heap, o)
       [] ins.op \in LogicOps ->
            IF IsNullData(a) THEN NoEffect(regs, heap)
            ELSE IF ~OperandsValid(ins) THEN NoEffect(regs, heap)
            ELSE StepResult([regs EXCEPT ![a.dest] = ExecLogic(ins, regs)],
                            heap, FALSE, 0, << >>, FALSE)
       [] ins.op = "RANDOM_RANGE" ->
            IF IsNullData(a) THEN NoEffect(regs, heap)
            ELSE IF ~OperandsValid(ins) THEN NoEffect(regs, heap)
            ELSE StepResult(
                   [regs EXCEPT ![a.dest] =
                      IntV(rand_range(WordOf(regs[a.min]), WordOf(regs[a.max]), o.r))],
                   heap, FALSE, 0, << >>, FALSE)
       [] ins.op = "RETURN" -> ExecReturn(ins, regs, heap)
       [] OTHER -> NoEffect(regs, heap)

\* The strings a primitive may hand back, per opcode.
OutString(op) ==
  CASE op = "FS_LIST" -> << "a", "\n", "b", "\n" >>
    [] op = "FS_HASH" -> << "0", "f" >>
    [] OTHER -> << "x" >>

\* The outcomes the environment can give the instruction.
Outcomes(ins, regs) ==
  LET kind == CallKind(ins, regs)
  IN IF kind = "env"
     THEN {[NoOutcome EXCEPT !.ok = b, !.s = IF b THEN OutString(ins.op) ELSE << >>] :
             b \in BOOLEAN}
     ELSE IF kind = "wild"
     THEN {[NoOutcome EXCEPT !.ok = b, !.s = IF b THEN OutString(ins.op) ELSE << >>] :
             b \in BOOLEAN} \cup {[NoOutcome EXCEPT !.crash = TRUE]}
     ELSE IF kind = "rand"
     THEN {[NoOutcome EXCEPT !.r = r] : r \in 0 .. MaxRand}
     ELSE {NoOutcome}

\* sm_execute on a whole list: the loop over ExecInstr, the environment's
\* outcomes os consumed in order by the instructions that ask for one.
RECURSIVE RunList(_, _, _, _)
RunList(list, regs, heap, os) ==
  IF list = << >>
  THEN [regs |-> regs, heap |-> heap, halt |-> FALSE, val |-> 0, crash |-> FALSE]
  ELSE LET ins == Head(list)
           uses == CallKind(ins, regs) /= "none" /\ os /= << >>
           r == ExecInstr(ins, regs, heap, IF uses THEN Head(os) ELSE NoOutcome)
       IN IF r.crash \/ r.halt
          THEN [regs |-> r.regs, heap |-> r.heap, halt |-> r.halt, val |-> r.val,
                crash |-> r.crash]
          ELSE RunList(Tail(list), r.regs, r.heap, IF uses THEN Tail(os) ELSE os)

\* The completion value the worker leaves for a run of sm_execute: the
\* RETURN operand, or the 0 written after a run that ended without RETURN.
Completion(run) == IF run.halt THEN run.val ELSE 0

(* ------------------------------------------------------------------ state *)

VARIABLES
  regs,         \* ctx->vm.regs
  heap,         \* the C strings allocated so far
  nodes,        \* the sm_job records allocated so far: id -> [instr, next, freed],
                \* and instr_freed: the instruction list has been freed,
                \* with the message it was parsed from, the heap before parsing
                \* and the session that submitted it (0: none)
  head,         \* ctx->head (0 is NULL)
  tail,         \* ctx->tail (0 is NULL)
  job_done,     \* ctx->job_done
  job_value,    \* ctx->job_value
  running,      \* ctx->running
  wpc,          \* where the worker thread is in sm_worker
  wj,           \* the worker's local j (0 when it holds none)
  cur,          \* the rest of the instruction list in sm_execute
  current_ctx,  \* the worker's thread-local current_ctx is set
  cond_wake,    \* the worker, blocked on ctx->cond, has been signalled
  done_wake,    \* the client, blocked on ctx->done_cond, has been signalled
  cpc,          \* where the client thread is
  wait_value,   \* *value of the client's last sm_wait
  got,          \* the result of the client's last sm_get_reg
  crashed,      \* the process died in a fs_utils.h call on a wild pointer
  pool,         \* the recipe messages the client may submit
  budget,       \* how many more recipes the client will offer
  submitted,    \* history: job ids in the order sm_submit enqueued them
  started,      \* history: job ids in the order the worker dequeued them
  finished,     \* history: jobs whose sm_execute has returned
  result,       \* history: job id -> value of its own terminal transition
  doneCount,    \* history: done_cond signals since the last dequeue
  fsLog,        \* history: fs_utils.h calls of the running job
  outs,         \* history: the environment's outcomes for the running job
  execd,        \* history: instructions of the running job executed so far
  jobStart,     \* history: registers, heap and job_value when the running job was dequeued
  last,         \* history: the last instruction executed, the registers and the
                \* length of fsLog before it
  waitFor,      \* history: the last job submitted before the current sm_wait call
  serial,       \* history: every sm_submit so far followed the sm_wait of the one before
  lastWait,     \* history: what the last returned sm_wait saw, whether the
                \* one before it was for the same, finished job, and its value
  get_idx,      \* idx of the sm_get_reg call in progress
  dpc,          \* where the daemon's service loop is ("off": no daemon)
  conn,         \* the accepted connection: what the peer sends, what was sent to it
  nsess,        \* connections accepted so far
  answers,      \* history: the responses sent, each with its session and job
  sink,         \* the report sink of the executor: the session it collects for (0 is NULL)
  resp,         \* the response array the daemon is collecting
  reports,      \* history: the REPORT events emitted, each with its job and the sink it reached
  stopAt        \* history: where the worker was, and the head of the queue, when
                \* sm_thread_stop was called

vars ==
  << regs, heap, nodes, head, tail, job_done, job_value, running, wpc, wj, cur,
     current_ctx, cond_wake, done_wake, cpc, wait_value, got, crashed, pool,
     budget, submitted, started, finished, result, doneCount, fsLog, outs,
     execd, jobStart, last, waitFor, serial, lastWait, get_idx, dpc, conn, nsess,
     answers, sink, resp, reports, stopAt >>

ctxVars == << head, tail, job_done, job_value, running >>

workerVars == << wpc, wj, cur, current_ctx >>

execHist == << fsLog, outs, execd, jobStart, last >>

clientVars == << cpc, wait_value, got, get_idx, waitFor, lastWait >>

dVars == << dpc, conn, nsess, answers, sink, stopAt >>

rVars == << resp, reports >>

NoInstr == [op |-> "", data |-> NullData]

\* No connection: nothing to receive, nothing sent.
NoConn ==
  [open |-> FALSE, hs |-> [raw |-> "none", v |-> JNone],
   rcp |-> [raw |-> "none", v |-> JNone], hs_ok |-> FALSE, recipe |-> << >>,
   log |-> << >>]

LastSubmitted == IF submitted = << >> THEN 0 ELSE submitted[Len(submitted)]

(* ------------------------------------------------------------ job queue *)

\* Enqueue as a push on the front of the list.
Enqueue_front(q, j) ==
  [head |-> j,
   tail |-> IF q.tail /= 0 THEN q.tail ELSE j,
   nodes |-> [q.nodes EXCEPT ![j].next = q.head]]

\* The enqueue of sm_submit: link j after the tail, or make it the head.
Enqueue(q, j) ==
  [head |-> IF q.tail /= 0 THEN q.head ELSE j,
   tail |-> j,
   nodes |-> IF q.tail /= 0
             THEN [q.nodes EXCEPT ![q.tail].next = j]
             ELSE q.nodes]

\* Variant of Dequeue that leaves tail alone when the queue empties.
Dequeue_keeptail(q) ==
  [j |-> q.head, head |-> q.nodes[q.head].next, tail |-> q.tail]

\* The dequeue of sm_worker: unlink the head.
Dequeue(q) ==
  LET nh == q.nodes[q.head].next
  IN [j |-> q.head, head |-> nh, tail |-> IF nh = 0 THEN 0 ELSE q.tail]

\* pthread_cond_signal on a condition with at most one waiter: the waiter,
\* if blocked, becomes runnable; a signal nobody waits for is lost.
Signal(blocked) == blocked

\* ctx->lock is not held across a step of the client: every critical
\* section but sm_get_reg's is one step.
LockFree == cpc /= "getreg"

(* ---------------------------------------------------------- worker thread *)

\* sm_worker, top of the loop, queue empty and running: pthread_cond_wait.
W_Wait ==
  /\ ~crashed /\ wpc = "top" /\ running /\ head = 0
  /\ LockFree
  /\ wpc' = "waitcond"
  /\ cond_wake' = FALSE
  /\ UNCHANGED << dVars, rVars, serial, regs, heap, nodes, ctxVars, wj, cur, current_ctx, done_wake,
                  clientVars, crashed, pool, budget, submitted, started, finished,
                  result, doneCount, execHist >>

\* pthread_cond_wait returns after a signal; the loop tests its condition again.
W_Resume ==
  /\ ~crashed /\ wpc = "waitcond" /\ cond_wake
  /\ LockFree
  /\ wpc' = "top"
  /\ cond_wake' = FALSE
  /\ UNCHANGED << dVars, rVars, serial, regs, heap, nodes, ctxVars, wj, cur, current_ctx, done_wake,
                  clientVars, crashed, pool, budget, submitted, started, finished,
                  result, doneCount, execHist >>

\* Variant of W_Exit that leaves the loop as soon as shutdown is requested.
W_Exit_now ==
  /\ ~crashed /\ wpc = "top" /\ ~running
  /\ LockFree
  /\ wpc' = "exited"
  /\ UNCHANGED << dVars, rVars, serial, regs, heap, nodes, ctxVars, wj, cur, current_ctx, cond_wake,
                  done_wake, clientVars, crashed, pool, budget, submitted, started,
                  finished, result, doneCount, execHist >>

\* Shutdown requested and nothing queued: the worker leaves its loop.
W_Exit ==
  /\ ~crashed /\ wpc = "top" /\ ~running /\ head = 0
  /\ LockFree
  /\ wpc' = "exited"
  /\ UNCHANGED << dVars, rVars, serial, regs, heap, nodes, ctxVars, wj, cur, current_ctx, cond_wake,
                  done_wake, clientVars, crashed, pool, budget, submitted, started,
                  finished, result, doneCount, execHist >>

\* Lines 270-277: take the head job, clear job_done, set current_ctx.
W_Dequeue ==
  /\ ~crashed /\ wpc = "top" /\ head /= 0
  /\ LockFree
  /\ LET d == Dequeue([head |-> head, tail |-> tail, nodes |-> nodes])
     IN /\ wj' = d.j
        /\ head' = d.head
        /\ tail' = d.tail
        /\ cur' = nodes[d.j].instr
        /\ wpc' = IF nodes[d.j].instr = << >> THEN "post" ELSE "exec"
        /\ started' = Append(started, d.j)
        /\ finished' = IF nodes[d.j].instr = << >> THEN finished \cup {d.j} ELSE finished
  /\ job_done' = FALSE
  /\ current_ctx' = TRUE
  /\ doneCount' = 0
  /\ fsLog' = << >>
  /\ outs' = << >>
  /\ execd' = 0
  /\ jobStart' = [regs |-> regs, heap |-> heap, value |-> job_value]
  /\ last' = [ins |-> NoInstr, regs |-> regs, nlog |-> 0]
  /\ UNCHANGED << dVars, rVars, serial, regs, heap, nodes, job_value, running, cond_wake, done_wake,
                  clientVars, crashed, pool, budget, submitted, result >>

\* Variant of ReturnSection that signals without storing the operand.
ReturnSection_stale(ctxset, done, value, val) ==
  [done |-> TRUE, value |-> value, sig |-> TRUE]

\* The event of a REPORT instruction: an object giving, for each index of
\* the payload, the integer in that register.
ReportEvent(a, rs) ==
  JObj([k \in {ToString(a.regs[i]) : i \in DOMAIN a.regs} |->
          JNum(WordOf(rs[CHOOSE x \in RegIdx : ToString(x) = k]))])

\* Variant of ReportStep in which REPORT produces nothing.
ReportStep_none(ins, rs) == << >>

\* The events executing ins emits: one for a REPORT with a payload whose
\* indices are all registers, none otherwise.
ReportStep(ins, rs) ==
  IF ins.op = "REPORT" /\ ~IsNullData(ins.data)
       /\ (\A i \in DOMAIN ins.data.regs : reg_valid(ins.data.regs[i]))
  THEN << ReportEvent(ins.data, rs) >>
  ELSE << >>

\* report_collect_cb(json, ud): append the event to the array ud.
report_collect_cb(arr, evs) == arr \o evs

\* The critical section of the RETURN case (lines 240-246).
ReturnSection(ctxset, done, value, val) ==
  IF ctxset THEN [done |-> TRUE, value |-> val, sig |-> TRUE]
  ELSE [done |-> done, value |-> value, sig |-> FALSE]

\* One instruction of sm_execute(j->instr, &ctx->vm), run without the lock.
W_Exec ==
  /\ ~crashed /\ wpc = "exec"
  /\ (Head(cur).op = "RETURN" /\ current_ctx) => LockFree
  /\ \E o \in Outcomes(Head(cur), regs) :
       LET ins == Head(cur)
           r == ExecInstr(ins, regs, heap, o)
           rs == ReturnSection(current_ctx, job_done, job_value, r.val)
           ends == r.halt \/ Tail(cur) = << >>
       IN /\ crashed' = r.crash
          /\ regs' = r.regs
          /\ heap' = r.heap
          /\ fsLog' = fsLog \o r.calls
          /\ outs' = IF CallKind(ins, regs) = "none" THEN outs ELSE Append(outs, o)
          /\ last' = [ins |-> ins, regs |-> regs, nlog |-> Len(fsLog)]
          /\ execd' = execd + 1
          /\ reports' = reports \o [i \in DOMAIN ReportStep(ins, regs) |->
                                      [job |-> wj, ev |-> ReportStep(ins, regs)[i],
                                       sink |-> sink]]
          /\ resp' = IF sink /= 0 THEN report_collect_cb(resp, ReportStep(ins, regs))
                      ELSE resp
          /\ IF r.crash
             THEN UNCHANGED << cur, wpc, job_done, job_value, done_wake, doneCount,
                               finished, result >>
             ELSE /\ cur' = IF r.halt THEN << >> ELSE Tail(cur)
                  /\ wpc' = IF ends THEN "post" ELSE "exec"
                  /\ finished' = IF ends THEN finished \cup {wj} ELSE finished
                  /\ result' = IF ends
                               THEN [result EXCEPT ![wj] = IF r.halt THEN r.val ELSE 0]
                               ELSE result
                  /\ IF r.halt
                     THEN /\ job_done' = rs.done
                          /\ job_value' = rs.value
                          /\ done_wake' = IF rs.sig THEN Signal(cpc = "wait") ELSE done_wake
                          /\ doneCount' = IF rs.sig THEN doneCount + 1 ELSE doneCount
                     ELSE UNCHANGED << job_done, job_value, done_wake, doneCount >>
  /\ UNCHANGED << dVars, serial, nodes, head, tail, running, wj, current_ctx, cond_wake,
                  clientVars, pool, budget, submitted, started, jobStart >>

\* Variant of PostSection that signals without clearing job_value.
PostSection_keep(done, value) ==
  IF ~done THEN [done |-> TRUE, value |-> value, sig |-> TRUE]
  ELSE [done |-> done, value |-> value, sig |-> FALSE]

\* Variant of PostSection that never marks the job done.
PostSection_silent(done, value) == [done |-> done, value |-> value, sig |-> FALSE]

\* The critical section after sm_execute returns (lines 281-287).
PostSection(done, value) ==
  IF ~done THEN [done |-> TRUE, value |-> 0, sig |-> TRUE]
  ELSE [done |-> done, value |-> value, sig |-> FALSE]

\* Lines 279-287: clear current_ctx, signal completion unless RETURN did.
W_Post ==
  /\ ~crashed /\ wpc = "post"
  /\ LockFree
  /\ LET ps == PostSection(job_done, job_value)
     IN /\ job_done' = ps.done
        /\ job_value' = ps.value
        /\ done_wake' = IF ps.sig THEN Signal(cpc = "wait") ELSE done_wake
        /\ doneCount' = IF ps.sig THEN doneCount + 1 ELSE doneCount
  /\ current_ctx' = FALSE
  /\ wpc' = "free"
  /\ UNCHANGED << dVars, rVars, serial, regs, heap, nodes, head, tail, running, wj, cur, cond_wake,
                  clientVars, crashed, pool, budget, submitted, started, finished,
                  result, execHist >>

\* Variant of W_Free that also resets the register file.
W_Free_clear ==
  /\ ~crashed /\ wpc = "free"
  /\ nodes' = [nodes EXCEPT ![wj].freed = TRUE]
  /\ wj' = 0
  /\ wpc' = "top"
  /\ regs' = [i \in RegIdx |-> NULL]
  /\ UNCHANGED << dVars, rVars, serial, heap, ctxVars, cur, current_ctx, cond_wake, done_wake,
                  clientVars, crashed, pool, budget, submitted, started, finished,
                  result, doneCount, execHist >>

\* free(j): the job record only.
W_Free ==
  /\ ~crashed /\ wpc = "free"
  /\ nodes' = [nodes EXCEPT ![wj].freed = TRUE]
  /\ wj' = 0
  /\ wpc' = "top"
  /\ UNCHANGED << dVars, rVars, serial, regs, heap, ctxVars, cur, current_ctx, cond_wake, done_wake,
                  clientVars, crashed, pool, budget, submitted, started, finished,
                  result, doneCount, execHist >>

(* ---------------------------------------------------------- client thread *)

\* The caller's proto_parse_recipe followed by sm_submit(ctx, recipe), the
\* job record allocated: enqueue, clear job_done, signal the worker.
SubmitOK(json) ==
  /\ ~crashed /\ cpc = "idle" /\ budget > 0
  /\ LET p == proto_parse_recipe(json, heap)
         j == Cardinality(DOMAIN nodes) + 1
         fresh == [i \in (DOMAIN nodes) \cup {j} |->
                     IF i = j
                     THEN [instr |-> p.list, next |-> 0, freed |-> FALSE,
                           instr_freed |-> FALSE, json |-> json, heap0 |-> heap, sess |-> 0]
                     ELSE nodes[i]]
         q == Enqueue([head |-> head, tail |-> tail, nodes |-> fresh], j)
     IN /\ p.list /= << >>
        /\ heap' = p.heap
        /\ nodes' = q.nodes
        /\ head' = q.head
        /\ tail' = q.tail
        /\ submitted' = Append(submitted, j)
        /\ result' = [i \in (DOMAIN nodes) \cup {j} |-> IF i = j THEN 0 ELSE result[i]]
  /\ job_done' = FALSE
  /\ cond_wake' = Signal(wpc = "waitcond")
  /\ budget' = budget - 1
  /\ serial' = (serial /\ (submitted = << >> \/
                             (lastWait.ret /\ lastWait.job = LastSubmitted)))
  /\ UNCHANGED << dVars, rVars, regs, job_value, running, workerVars, done_wake, clientVars,
                  crashed, pool, started, finished, doneCount, execHist >>

\* The same call when malloc(sizeof(*j)) fails: sm_submit returns at once.
SubmitNoMem(json) ==
  /\ ~crashed /\ cpc = "idle" /\ budget > 0
  /\ LET p == proto_parse_recipe(json, heap)
     IN /\ p.list /= << >>
        /\ heap' = p.heap
  /\ budget' = budget - 1
  /\ UNCHANGED << dVars, rVars, serial, regs, nodes, ctxVars, workerVars, cond_wake, done_wake,
                  clientVars, crashed, pool, submitted, started, finished, result,
                  doneCount, execHist >>

\* proto_parse_recipe returned NULL: the callers submit nothing.
SubmitRejected(json) ==
  /\ ~crashed /\ cpc = "idle" /\ budget > 0
  /\ proto_parse_recipe(json, heap).list = << >>
  /\ budget' = budget - 1
  /\ UNCHANGED << dVars, rVars, serial, regs, heap, nodes, ctxVars, workerVars, cond_wake, done_wake,
                  clientVars, crashed, pool, submitted, started, finished, result,
                  doneCount, execHist >>

\* The client calls sm_wait(ctx, &value).
sm_wait_call ==
  /\ ~crashed /\ cpc = "idle"
  /\ cpc' = "waitlock"
  /\ waitFor' = LastSubmitted
  /\ UNCHANGED << dVars, rVars, serial, regs, heap, nodes, ctxVars, workerVars, cond_wake, done_wake,
                  wait_value, got, get_idx, lastWait, crashed, pool, budget, submitted,
                  started, finished, result, doneCount, execHist >>

\* Variant of sm_wait_locked that clears job_done when it returns.
sm_wait_locked_consume ==
  /\ ~crashed /\ cpc = "waitlock"
  /\ IF job_done
     THEN /\ wait_value' = job_value
          /\ cpc' = "idle"
          /\ lastWait' = [ret |-> TRUE, job |-> waitFor, value |-> job_value,
                          fin |-> waitFor \in finished,
                          again |-> lastWait.ret /\ lastWait.fin /\ lastWait.job = waitFor,
                          prev |-> lastWait.value]
          /\ job_done' = FALSE
          /\ UNCHANGED done_wake
     ELSE /\ cpc' = "wait"
          /\ done_wake' = FALSE
          /\ UNCHANGED << wait_value, lastWait, job_done >>
  /\ UNCHANGED << dVars, rVars, serial, regs, heap, nodes, head, tail, job_value, running,
                  workerVars, cond_wake, got, get_idx, waitFor,
                  crashed, pool, budget, submitted, started, finished, result,
                  doneCount, execHist >>

\* sm_wait holding the lock: return job_value if job_done, else block.
sm_wait_locked ==
  /\ ~crashed /\ cpc = "waitlock"
  /\ IF job_done
     THEN /\ wait_value' = job_value
          /\ cpc' = "idle"
          /\ lastWait' = [ret |-> TRUE, job |-> waitFor, value |-> job_value,
                          fin |-> waitFor \in finished,
                          again |-> lastWait.ret /\ lastWait.fin /\ lastWait.job = waitFor,
                          prev |-> lastWait.value]
          /\ UNCHANGED done_wake
     ELSE /\ cpc' = "wait"
          /\ done_wake' = FALSE
          /\ UNCHANGED << wait_value, lastWait >>
  /\ UNCHANGED << dVars, rVars, serial, regs, heap, nodes, ctxVars, workerVars, cond_wake, got, get_idx, waitFor,
                  crashed, pool, budget, submitted, started, finished, result,
                  doneCount, execHist >>

\* pthread_cond_wait on done_cond returns after a signal.
sm_wait_wake ==
  /\ ~crashed /\ cpc = "wait" /\ done_wake
  /\ cpc' = "waitlock"
  /\ done_wake' = FALSE
  /\ UNCHANGED << dVars, rVars, serial, regs, heap, nodes, ctxVars, workerVars, cond_wake, wait_value,
                  got, get_idx, waitFor, lastWait, crashed, pool, budget, submitted, started,
                  finished, result, doneCount, execHist >>

\* sm_get_reg(ctx, idx) with an index out of range: NULL, the lock not taken.
sm_get_reg_invalid(idx) ==
  /\ ~crashed /\ cpc = "idle"
  /\ ~reg_valid(idx)
  /\ got' = NULL
  /\ UNCHANGED << dVars, rVars, serial, regs, heap, nodes, ctxVars, workerVars, cond_wake,
                  done_wake, cpc, wait_value, get_idx, waitFor, lastWait, crashed,
                  pool, budget, submitted, started, finished, result, doneCount,
                  execHist >>

\* sm_get_reg(ctx, idx), index in range: pthread_mutex_lock(&ctx->lock).
sm_get_reg_lock(idx) ==
  /\ ~crashed /\ cpc = "idle"
  /\ reg_valid(idx)
  /\ cpc' = "getreg"
  /\ get_idx' = idx
  /\ UNCHANGED << dVars, rVars, serial, regs, heap, nodes, ctxVars, workerVars, cond_wake,
                  done_wake, wait_value, got, waitFor, lastWait, crashed, pool,
                  budget, submitted, started, finished, result, doneCount, execHist >>

\* sm_get_reg holding the lock: read the register, unlock, return.
sm_get_reg ==
  /\ ~crashed /\ cpc = "getreg"
  /\ got' = regs[get_idx]
  /\ get_idx' = 0
  /\ cpc' = "idle"
  /\ UNCHANGED << dVars, rVars, serial, regs, heap, nodes, ctxVars, workerVars, cond_wake,
                  done_wake, wait_value, waitFor, lastWait, crashed, pool,
                  budget, submitted, started, finished, result, doneCount, execHist >>

\* sm_thread_stop up to pthread_join: clear running, signal the worker.
sm_thread_stop_call ==
  /\ ~crashed /\ cpc = "idle"
  /\ running' = FALSE
  /\ cond_wake' = Signal(wpc = "waitcond")
  /\ cpc' = "join"
  /\ stopAt' = [called |-> TRUE, wpc |-> wpc, wj |-> wj, head |-> head]
  /\ UNCHANGED << dpc, conn, nsess, answers, sink, rVars, serial, regs, heap, nodes, head, tail, job_done, job_value, workerVars,
                  done_wake, wait_value, got, get_idx, waitFor, lastWait, crashed, pool,
                  budget, submitted, started, finished, result, doneCount, execHist >>

\* Variant of sm_thread_stop_join that does not wait for the worker.
sm_thread_stop_join_nowait ==
  /\ ~crashed /\ cpc = "join"
  /\ cpc' = "stopped"
  /\ UNCHANGED << dVars, rVars, serial, regs, heap, nodes, ctxVars, workerVars, cond_wake, done_wake,
                  wait_value, got, get_idx, waitFor, lastWait, crashed, pool, budget,
                  submitted, started, finished, result, doneCount, execHist >>

\* pthread_join returns once the worker has exited; ctx is destroyed.
sm_thread_stop_join ==
  /\ ~crashed /\ cpc = "join" /\ wpc = "exited"
  /\ cpc' = "stopped"
  /\ UNCHANGED << dVars, rVars, serial, regs, heap, nodes, ctxVars, workerVars, cond_wake, done_wake,
                  wait_value, got, get_idx, waitFor, lastWait, crashed, pool, budget,
                  submitted, started, finished, result, doneCount, execHist >>

(* -------------------------------------------------------- recipe messages *)

Elem(op, data) == JObj([op |-> JStr(op), data |-> JObj(data)])

J_Return(v) == Elem("SM_OP_RETURN", [value |-> JNum(v)])

J_LoadInt(d, n) == Elem("SM_OP_LOAD_CONST", [dest |-> JNum(d), value |-> JNum(n)])

J_LoadStr(d, str) == Elem("SM_OP_LOAD_CONST", [dest |-> JNum(d), value |-> JStr(str)])

J_Unknown == Elem("SM_OP_NOPE", << >>)

\* The recipes the client of the executor specification submits: one that
\* returns explicitly, one that falls off the end, one that loads and
\* returns, one with no instruction that parses.
ConcRecipes ==
  { JArr(<< J_Return(7) >>),
    JArr(<< J_LoadInt(0, 5) >>),
    JArr(<< J_LoadInt(1, 2), J_Return(3) >>),
    JArr(<< J_Unknown >>) }

\* Register indices the client reads with sm_get_reg.
GetIdx == {0, 1, SM_REG_COUNT}

(* ------------------------------------------------- executor specification *)

\* sm_thread_start: calloc'ed ctx, running set, worker created.
Init ==
  /\ regs = [i \in RegIdx |-> NULL]
  /\ heap = << >>
  /\ nodes = << >>
  /\ head = 0
  /\ tail = 0
  /\ job_done = FALSE
  /\ job_value = 0
  /\ running = TRUE
  /\ wpc = "top"
  /\ wj = 0
  /\ cur = << >>
  /\ current_ctx = FALSE
  /\ cond_wake = FALSE
  /\ done_wake = FALSE
  /\ cpc = "idle"
  /\ wait_value = 0
  /\ got = NULL
  /\ crashed = FALSE
  /\ pool = ConcRecipes
  /\ budget = MaxJobs
  /\ submitted = << >>
  /\ started = << >>
  /\ finished = {}
  /\ result = << >>
  /\ doneCount = 0
  /\ fsLog = << >>
  /\ outs = << >>
  /\ execd = 0
  /\ jobStart = [regs |-> [i \in RegIdx |-> NULL], heap |-> << >>, value |-> 0]
  /\ last = [ins |-> NoInstr, regs |-> [i \in RegIdx |-> NULL], nlog |-> 0]
  /\ waitFor = 0
  /\ serial = TRUE
  /\ lastWait = [ret |-> FALSE, job |-> 0, value |-> 0, fin |-> FALSE,
                 again |-> FALSE, prev |-> 0]
  /\ get_idx = 0
  /\ dpc = "off"
  /\ conn = NoConn
  /\ nsess = 0
  /\ answers = << >>
  /\ sink = 0
  /\ resp = << >>
  /\ reports = << >>
  /\ stopAt = [called |-> FALSE, wpc |-> "", wj |-> 0, head |-> 0]

Worker == W_Wait \/ W_Resume \/ W_Exit \/ W_Dequeue \/ W_Exec \/ W_Post \/ W_Free

Next ==
  \/ W_Wait
  \/ W_Resume
  \/ W_Exit
  \/ W_Dequeue
  \/ W_Exec
  \/ W_Post
  \/ W_Free
  \/ \E json \in pool : SubmitOK(json)
  \/ \E json \in pool : SubmitNoMem(json)
  \/ \E json \in pool : SubmitRejected(json)
  \/ sm_wait_call
  \/ sm_wait_locked
  \/ sm_wait_wake
  \/ \E idx \in GetIdx : sm_get_reg_invalid(idx)
  \/ \E idx \in GetIdx : sm_get_reg_lock(idx)
  \/ sm_get_reg
  \/ sm_thread_stop_call
  \/ sm_thread_stop_join

Spec == Init /\ [][Next]_vars

\* The executor under a fair scheduler: a runnable worker thread runs, a
\* thread inside a critical section leaves it, pthread_join returns once the
\* worker has exited.
SpecStop ==
  /\ Init /\ [][Next]_vars
  /\ WF_vars(Worker)
  /\ WF_vars(sm_get_reg)
  /\ WF_vars(sm_thread_stop_join)

(* ---------------------------------------------- interpreter specification *)

J_Op2(op, d, f, x) ==
  Elem(op, [g \in {"dest", f} |-> IF g = "dest" THEN JNum(d) ELSE JNum(x)])

\* The array elements recipes are drawn from: well-formed instructions on
\* registers 0..3, instructions with an operand index outside [0, 8),
\* elements the decoder refuses, and two RETURNs.
VMElems ==
  { J_LoadInt(0, 5),
    J_LoadStr(1, << "p" >>),
    J_LoadInt(SM_REG_COUNT, 1),
    J_Op2("SM_OP_FS_DELETE", 2, "path", 1),
    J_Op2("SM_OP_FS_DELETE", 2, "path", 0),
    J_Op2("SM_OP_FS_READ", 3, "path", 1),
    J_Op2("SM_OP_FS_READ", -1, "path", 1),
    J_Op2("SM_OP_FS_UNPACK", 1, "tar_path", 1),
    J_Op2("SM_OP_NOT", 0, "src", -1),
    J_Op2("SM_OP_NOT", 2, "src", 0),
    Elem("SM_OP_LOAD_CONST", [value |-> JNum(9)]),
    Elem("SM_OP_RETURN", [value |-> JStr(<< "x" >>)]),
    Elem("SM_OP_RETURN", << >>),
    J_Unknown,
    JNum(4),
    J_Return(7),
    J_Return(3) }

VMRecipes ==
  {JArr(a) : a \in UNION {[1 .. n -> VMElems] : n \in 0 .. MaxRecipeLen}}
    \cup {JObj(<< >>)}

\* What an earlier job can leave behind: nothing (a fresh executor), or the
\* registers, heap and completion slot after the recipe
\*   LOAD_CONST 0, 5; LOAD_CONST 1, "p"; RETURN 7.
VMPriors ==
  { [regs |-> [i \in RegIdx |-> NULL], heap |-> << >>,
     job_done |-> FALSE, job_value |-> 0],
    [regs |-> [i \in RegIdx |->
                 IF i = 0 THEN IntV(5) ELSE IF i = 1 THEN StrV(1) ELSE NULL],
     heap |-> << [s |-> << "p" >>, src |-> "const", freed |-> FALSE] >>,
     job_done |-> TRUE, job_value |-> 7] }

InitVM ==
  /\ \E pr \in VMPriors :
       /\ regs = pr.regs
       /\ heap = pr.heap
       /\ job_done = pr.job_done
       /\ job_value = pr.job_value
       /\ jobStart = [regs |-> pr.regs, heap |-> pr.heap, value |-> pr.job_value]
       /\ last = [ins |-> NoInstr, regs |-> pr.regs, nlog |-> 0]
  /\ pool \in {{r} : r \in VMRecipes}
  /\ budget = 1
  /\ nodes = << >>
  /\ head = 0
  /\ tail = 0
  /\ running = TRUE
  /\ wpc = "top"
  /\ wj = 0
  /\ cur = << >>
  /\ current_ctx = FALSE
  /\ cond_wake = FALSE
  /\ done_wake = FALSE
  /\ cpc = "idle"
  /\ wait_value = 0
  /\ got = NULL
  /\ crashed = FALSE
  /\ submitted = << >>
  /\ started = << >>
  /\ finished = {}
  /\ result = << >>
  /\ doneCount = 0
  /\ fsLog = << >>
  /\ outs = << >>
  /\ execd = 0
  /\ waitFor = 0
  /\ serial = TRUE
  /\ lastWait = [ret |-> FALSE, job |-> 0, value |-> 0, fin |-> FALSE,
                 again |-> FALSE, prev |-> 0]
  /\ get_idx = 0
  /\ dpc = "off"
  /\ conn = NoConn
  /\ nsess = 0
  /\ answers = << >>
  /\ sink = 0
  /\ resp = << >>
  /\ reports = << >>
  /\ stopAt = [called |-> FALSE, wpc |-> "", wj |-> 0, head |-> 0]

\* One recipe, parsed, submitted and run by the worker.
NextVM ==
  \/ W_Wait
  \/ W_Resume
  \/ W_Dequeue
  \/ W_Exec
  \/ W_Post
  \/ W_Free
  \/ \E json \in pool : SubmitOK(json)
  \/ \E json \in pool : SubmitRejected(json)

SpecVM == InitVM /\ [][NextVM]_vars

(* ----------------------------------------------- single-opcode specification *)

J_Eq(d, l, r) == Elem("SM_OP_EQ", [dest |-> JNum(d), lhs |-> JNum(l), rhs |-> JNum(r)])

J_Not(d, a) == Elem("SM_OP_NOT", [dest |-> JNum(d), src |-> JNum(a)])

J_RandomRange(d, lo, hi) ==
  Elem("SM_OP_RANDOM_RANGE", [dest |-> JNum(d), min |-> JNum(lo), max |-> JNum(hi)])

J_PathJoin(d, b, n) ==
  Elem("SM_OP_PATH_JOIN", [dest |-> JNum(d), base |-> JNum(b), name |-> JNum(n)])

J_IndexSelect(d, l, k) ==
  Elem("SM_OP_INDEX_SELECT", [dest |-> JNum(d), list |-> JNum(l), index |-> JNum(k)])

\* The registers and heap an earlier job of LOAD_CONSTs leaves behind, its
\* i-th instruction loading lits[i] into register i - 1: a number is stored
\* as the word itself, a string as the address of the decoder's copy.
AfterLoads(lits) ==
  LET strs == SelectSeq(lits, IsString)
      addr(i) == Cardinality({k \in 1 .. i : IsString(lits[k])})
  IN [regs |-> [r \in RegIdx |->
                  IF r + 1 > Len(lits) THEN NULL
                  ELSE IF IsString(lits[r + 1]) THEN StrV(addr(r + 1))
                  ELSE IntV(lits[r + 1].n)],
      heap |-> [k \in DOMAIN strs |-> [s |-> strs[k].s, src |-> "const", freed |-> FALSE]]]

\* Words of every kind: positive, negative, one, zero, a string and the
\* empty string; registers 0 and 6 hold the same integer.
WordsPrior ==
  AfterLoads(<< JNum(5), JStr(<< "a" >>), JNum(-3), JNum(0), JStr(<< >>), JNum(1),
                JNum(5) >>)

\* Bases with and without a trailing '/', the empty base, and names.
PathsPrior ==
  AfterLoads(<< JStr(<< "a" >>), JStr(<< "a", "/" >>), JStr(<< >>), JStr(<< "b" >>),
                JStr(<< "/" >>) >>)

\* Lists of two segments, of three with an empty one and no final newline,
\* and of none; indices 1, 2, 3, -1 and 0.
ListsPrior ==
  AfterLoads(<< JStr(<< "a", "\n", "b", "\n" >>), JStr(<< "a", "\n", "\n", "b" >>),
                JStr(<< >>), JNum(1), JNum(2), JNum(3), JNum(-1) >>)

\* The recipes run on each prior; an object in place of the array, which the
\* decoder rejects, is among them.
OpCases ==
  {[prior |-> WordsPrior, recipe |-> JArr(<< J_Eq(d, a, a) >>)] :
     d \in RegIdx, a \in RegIdx}
  \cup {[prior |-> WordsPrior, recipe |-> JArr(<< J_Not(d, a), J_Not(d, a) >>)] :
          d \in RegIdx, a \in RegIdx}
  \cup {[prior |-> WordsPrior, recipe |-> JArr(<< J_RandomRange(d, lo, hi) >>)] :
          d \in {3, 5}, lo \in {0, 2, 5, 6, 7}, hi \in {0, 2, 5, 6, 7}}
  \cup {[prior |-> PathsPrior,
         recipe |-> JArr(<< J_PathJoin(IF over THEN b ELSE 5, b, n) >>)] :
          over \in BOOLEAN, b \in {0, 1, 2, 4}, n \in {3, 4}}
  \cup {[prior |-> ListsPrior,
         recipe |-> JArr(<< J_IndexSelect(IF over THEN l ELSE 7, l, k) >>)] :
          over \in BOOLEAN, l \in {0, 1, 2}, k \in {0, 3, 4, 5, 6, 7}}
  \cup {[prior |-> WordsPrior, recipe |-> JObj(<< >>)]}

InitOp ==
  /\ \E c \in OpCases :
       /\ regs = c.prior.regs
       /\ heap = c.prior.heap
       /\ jobStart = [regs |-> c.prior.regs, heap |-> c.prior.heap, value |-> 0]
       /\ last = [ins |-> NoInstr, regs |-> c.prior.regs, nlog |-> 0]
       /\ pool = {c.recipe}
  /\ job_done = TRUE
  /\ job_value = 0
  /\ budget = 1
  /\ nodes = << >>
  /\ head = 0
  /\ tail = 0
  /\ running = TRUE
  /\ wpc = "top"
  /\ wj = 0
  /\ cur = << >>
  /\ current_ctx = FALSE
  /\ cond_wake = FALSE
  /\ done_wake = FALSE
  /\ cpc = "idle"
  /\ wait_value = 0
  /\ got = NULL
  /\ crashed = FALSE
  /\ submitted = << >>
  /\ started = << >>
  /\ finished = {}
  /\ result = << >>
  /\ doneCount = 0
  /\ fsLog = << >>
  /\ outs = << >>
  /\ execd = 0
  /\ waitFor = 0
  /\ serial = TRUE
  /\ lastWait = [ret |-> FALSE, job |-> 0, value |-> 0, fin |-> FALSE,
                 again |-> FALSE, prev |-> 0]
  /\ get_idx = 0
  /\ dpc = "off"
  /\ conn = NoConn
  /\ nsess = 0
  /\ answers = << >>
  /\ sink = 0
  /\ resp = << >>
  /\ reports = << >>
  /\ stopAt = [called |-> FALSE, wpc |-> "", wj |-> 0, head |-> 0]

\* One recipe of one or two instructions of a single opcode, run by the
\* worker on registers an earlier job has loaded.
SpecOp == InitOp /\ [][NextVM]_vars

(* ----------------------------------------------------------------- daemon *)

\* What recv hands to proto_recv_json: nothing (the peer closed), bytes
\* that are no JSON text, or the text of the JSON value v.
NoMsg == [raw |-> "none", v |-> JNone]

BadMsg == [raw |-> "text", v |-> JNone]

Msg(v) == [raw |-> "json", v |-> v]

\* proto_recv_json: NULL when recv returns nothing.
proto_recv_json(m) == m.raw /= "none"

\* cJSON_Parse: NULL on text that is no JSON.
cJSON_Parse(m) == IF m.raw = "json" THEN m.v ELSE JNone

\* cJSON_GetObjectItemCaseSensitive on any root: NULL unless root is an
\* object holding the name.
RootItem(root, name) == IF IsObject(root) THEN GetObjectItem(root, name) ELSE JNone

\* Variant of parse_handshake that is content with either field.
parse_handshake_either(m) ==
  LET root == cJSON_Parse(m)
  IN IsString(RootItem(root, "hello")) \/ IsNumber(RootItem(root, "version"))

parse_handshake(m) ==
  LET root == cJSON_Parse(m)
  IN IF root.t = "none" THEN FALSE
     ELSE IsString(RootItem(root, "hello")) /\ IsNumber(RootItem(root, "version"))

\* report_status: the text of {"status": status}.
report_status(status) == JObj([status |-> JNum(status)])

\* The status message as sent: the text, a newline and the terminating NUL.
StatusFrame(status) ==
  [kind |-> "status", json |-> report_status(status), tail |-> << "\n", "NUL" >>]

\* The response as sent: the printed array and the terminating NUL.
RespFrame(arr) == [kind |-> "resp", json |-> JArr(arr), tail |-> << "NUL" >>]

NoFrame == [kind |-> "", json |-> JNone, tail |-> << >>]

\* One entry of the connection's history.
Ev(ev, msg, frame) == [ev |-> ev, msg |-> msg, frame |-> frame]

\* Variant of AfterHandshake that reads the recipe in any case.
AfterHandshake_always(ok) == "recipe"

\* Lines 163-166: close and accept again unless the handshake was accepted.
AfterHandshake(ok) == IF ok THEN "recipe" ELSE "accept"

\* accept returns a connection; its peer will send hs, then rcp.  At most
\* `most` connections are offered.
D_AcceptWithin(most, hs, rcp) ==
  /\ ~crashed /\ dpc = "accept" /\ nsess < most
  /\ nsess' = nsess + 1
  /\ conn' = [open |-> TRUE, hs |-> hs, rcp |-> rcp, hs_ok |-> FALSE,
              recipe |-> << >>, log |-> << >>]
  /\ dpc' = "handshake"
  /\ UNCHANGED << answers, sink, stopAt, rVars, serial, regs, heap, nodes, ctxVars,
                  workerVars, cond_wake, done_wake, clientVars, crashed, pool, budget,
                  submitted, started, finished, result, doneCount, execHist >>

D_Accept(hs, rcp) == D_AcceptWithin(MaxSessions, hs, rcp)

\* Lines 147-166: read the first message, reply with the status, close on a
\* rejected handshake.
D_Handshake ==
  /\ ~crashed /\ dpc = "handshake"
  /\ LET got_msg == proto_recv_json(conn.hs)
         handshake_ok == got_msg /\ parse_handshake(conn.hs)
         status_code == IF handshake_ok THEN 0 ELSE -1
         next == AfterHandshake(handshake_ok)
         log1 == conn.log \o << Ev("recv", conn.hs, NoFrame),
                                Ev("send", NoMsg, StatusFrame(status_code)) >>
     IN /\ dpc' = next
        /\ conn' = [conn EXCEPT !.hs_ok = handshake_ok,
                                !.open = (next /= "accept"),
                                !.log = IF next = "accept"
                                        THEN Append(log1, Ev("close", NoMsg, NoFrame))
                                        ELSE log1]
  /\ UNCHANGED << nsess, answers, sink, stopAt, rVars, serial, regs, heap, nodes,
                  ctxVars, workerVars, cond_wake, done_wake, clientVars, crashed, pool,
                  budget, submitted, started, finished, result, doneCount, execHist >>

\* Lines 169-175 and 207-210: read the second message and decode it; close
\* when there is none or no instruction list comes out of it, else create
\* the response array and install the sink.
D_Recipe ==
  /\ ~crashed /\ dpc = "recipe"
  /\ \E p \in {proto_parse_recipe(cJSON_Parse(conn.rcp), heap)} :
       LET got_msg == proto_recv_json(conn.rcp)
           log1 == Append(conn.log, Ev("recv", conn.rcp, NoFrame))
       IN IF got_msg /\ p.list /= << >>
          THEN /\ dpc' = "submit"
               /\ conn' = [conn EXCEPT !.log = log1, !.recipe = p.list]
               /\ heap' = p.heap
               /\ resp' = << >>
               /\ sink' = nsess
          ELSE /\ dpc' = "accept"
               /\ conn' = [conn EXCEPT !.open = FALSE,
                                       !.log = Append(log1, Ev("close", NoMsg, NoFrame))]
               /\ UNCHANGED << heap, resp, sink >>
  /\ UNCHANGED << nsess, answers, stopAt, reports, serial, regs, nodes, ctxVars,
                  workerVars, cond_wake, done_wake, clientVars, crashed, pool, budget,
                  submitted, started, finished, result, doneCount, execHist >>

\* Lines 176 and 183-185: sm_submit enqueues the job; the handler calls
\* sm_wait.
D_Submit ==
  /\ ~crashed /\ dpc = "submit"
  /\ \E j \in {Cardinality(DOMAIN nodes) + 1} :
       \E q \in {Enqueue([head |-> head, tail |-> tail,
                          nodes |-> [i \in (DOMAIN nodes) \cup {j} |->
                                       IF i = j
                                       THEN [instr |-> conn.recipe, next |-> 0,
                                             freed |-> FALSE, instr_freed |-> FALSE,
                                             json |-> conn.rcp.v,
                                             heap0 |-> heap, sess |-> nsess]
                                       ELSE nodes[i]]], j)} :
         /\ nodes' = q.nodes
         /\ head' = q.head
         /\ tail' = q.tail
         /\ submitted' = Append(submitted, j)
         /\ result' = [i \in (DOMAIN nodes) \cup {j} |-> IF i = j THEN 0 ELSE result[i]]
         /\ waitFor' = j
  /\ job_done' = FALSE
  /\ cond_wake' = Signal(wpc = "waitcond")
  /\ dpc' = "wait"
  /\ cpc' = "waitlock"
  /\ conn' = [conn EXCEPT !.log = Append(@, Ev("submit", NoMsg, NoFrame))]
  /\ UNCHANGED << nsess, answers, sink, stopAt, rVars, serial, regs, heap, job_value,
                  running, workerVars, done_wake, wait_value, got, get_idx, lastWait,
                  crashed, pool, budget, started, finished, doneCount, execHist >>

\* Variant of D_SubmitFail in which the failing sm_submit has cleared the
\* done flag and signalled the worker.
D_SubmitFail_signal ==
  /\ ~crashed /\ dpc = "submit"
  /\ sink' = 0
  /\ resp' = << >>
  /\ dpc' = "accept"
  /\ conn' = [conn EXCEPT !.open = FALSE,
                          !.log = @ \o << Ev("nosubmit", NoMsg, NoFrame),
                                          Ev("close", NoMsg, NoFrame) >>]
  /\ job_done' = FALSE
  /\ cond_wake' = Signal(wpc = "waitcond")
  /\ UNCHANGED << nsess, answers, stopAt, reports, serial, regs, heap, nodes, head, tail,
                  job_value, running, workerVars, done_wake, clientVars, crashed, pool,
                  budget, submitted, started, finished, result, doneCount, execHist >>

\* Lines 176-182: sm_submit reports that it queued nothing (its allocation
\* failed); the sink is removed and the connection closed without a reply.
D_SubmitFail ==
  /\ ~crashed /\ dpc = "submit"
  /\ sink' = 0
  /\ resp' = << >>
  /\ dpc' = "accept"
  /\ conn' = [conn EXCEPT !.open = FALSE,
                          !.log = @ \o << Ev("nosubmit", NoMsg, NoFrame),
                                          Ev("close", NoMsg, NoFrame) >>]
  /\ UNCHANGED << nsess, answers, stopAt, reports, serial, regs, heap, nodes, ctxVars,
                  workerVars, cond_wake, done_wake, clientVars, crashed, pool, budget,
                  submitted, started, finished, result, doneCount, execHist >>

\* Lines 186-206 and 210: sm_wait has returned; remove the sink, append the
\* terminal status to the array, send it, delete it, close.
D_Respond ==
  /\ ~crashed /\ dpc = "wait" /\ cpc = "idle"
  /\ LET arr == Append(resp, report_status(0))
     IN /\ conn' = [conn EXCEPT !.open = FALSE,
                                !.log = @ \o << Ev("send", NoMsg, RespFrame(arr)),
                                                Ev("close", NoMsg, NoFrame) >>]
        /\ answers' = Append(answers, [sess |-> nsess, job |-> waitFor, arr |-> arr])
  /\ sink' = 0
  /\ resp' = << >>
  /\ dpc' = "accept"
  /\ UNCHANGED << nsess, stopAt, reports, serial, regs, heap, nodes, ctxVars,
                  workerVars, cond_wake, done_wake, clientVars, crashed, pool, budget,
                  submitted, started, finished, result, doneCount, execHist >>

J_Report(idxs) ==
  Elem("SM_OP_REPORT", [regs |-> JArr([i \in DOMAIN idxs |-> JNum(idxs[i])])])

\* First messages a peer may send.
HsMsgs ==
  { NoMsg,
    BadMsg,
    Msg(JObj([hello |-> JStr(<< "h" >>), version |-> JNum(1)])),
    Msg(JObj([hello |-> JStr(<< "h" >>)])),
    Msg(JObj([hello |-> JNum(1), version |-> JNum(1)])),
    Msg(JArr(<< JStr(<< "h" >>), JNum(1) >>)) }

\* Second messages a peer may send: none (it disconnects), text that is no
\* JSON, a lone instruction object, an array nothing of which parses, and
\* recipes that run.
RcpMsgs ==
  { NoMsg,
    BadMsg,
    Msg(J_Return(7)),
    Msg(JArr(<< J_Unknown >>)),
    Msg(JArr(<< J_Return(7) >>)),
    Msg(JArr(<< J_LoadInt(0, 5), J_Report(<< 0 >>) >>)),
    Msg(JArr(<< J_Unknown, J_Return(3) >>)) }

\* The daemon after sm_thread_start and listen, at accept.
InitD ==
  /\ regs = [i \in RegIdx |-> NULL]
  /\ heap = << >>
  /\ nodes = << >>
  /\ head = 0
  /\ tail = 0
  /\ job_done = FALSE
  /\ job_value = 0
  /\ running = TRUE
  /\ wpc = "top"
  /\ wj = 0
  /\ cur = << >>
  /\ current_ctx = FALSE
  /\ cond_wake = FALSE
  /\ done_wake = FALSE
  /\ cpc = "idle"
  /\ wait_value = 0
  /\ got = NULL
  /\ crashed = FALSE
  /\ pool = {}
  /\ budget = 0
  /\ submitted = << >>
  /\ started = << >>
  /\ finished = {}
  /\ result = << >>
  /\ doneCount = 0
  /\ fsLog = << >>
  /\ outs = << >>
  /\ execd = 0
  /\ jobStart = [regs |-> [i \in RegIdx |-> NULL], heap |-> << >>, value |-> 0]
  /\ last = [ins |-> NoInstr, regs |-> [i \in RegIdx |-> NULL], nlog |-> 0]
  /\ waitFor = 0
  /\ serial = TRUE
  /\ lastWait = [ret |-> FALSE, job |-> 0, value |-> 0, fin |-> FALSE,
                 again |-> FALSE, prev |-> 0]
  /\ get_idx = 0
  /\ dpc = "accept"
  /\ conn = NoConn
  /\ nsess = 0
  /\ answers = << >>
  /\ sink = 0
  /\ resp = << >>
  /\ reports = << >>
  /\ stopAt = [called |-> FALSE, wpc |-> "", wj |-> 0, head |-> 0]

\* The handler between accept and close.
Handler ==
  D_Handshake \/ D_Recipe \/ D_Submit \/ D_SubmitFail \/ D_Respond
    \/ sm_wait_locked \/ sm_wait_wake

NextD ==
  \/ \E hs \in HsMsgs, rcp \in RcpMsgs : D_Accept(hs, rcp)
  \/ D_Handshake
  \/ D_Recipe
  \/ D_Submit
  \/ D_SubmitFail
  \/ D_Respond
  \/ sm_wait_locked
  \/ sm_wait_wake
  \/ W_Wait
  \/ W_Resume
  \/ W_Dequeue
  \/ W_Exec
  \/ W_Post
  \/ W_Free

\* The daemon under a fair scheduler, with peers that send or disconnect.
SpecD ==
  /\ InitD /\ [][NextD]_vars
  /\ WF_vars(Worker)
  /\ WF_vars(Handler)

(* ------------------------------------------------- codec specification *)

\* One well-typed array element per opcode name of the table, LOAD_CONST
\* with a number and with a string, REPORT with one and with three indices;
\* the operands of one element are pairwise different.
CodecElems ==
  { J_LoadInt(0, 5),
    J_LoadStr(1, << "p" >>),
    Elem("SM_OP_FS_CREATE", [dest |-> JNum(2), path |-> JNum(1), type |-> JNum(0)]),
    Elem("SM_OP_FS_DELETE", [dest |-> JNum(2), path |-> JNum(1)]),
    Elem("SM_OP_FS_COPY", [dest |-> JNum(2), src |-> JNum(1), dst |-> JNum(3)]),
    Elem("SM_OP_FS_MOVE", [dest |-> JNum(2), src |-> JNum(3), dst |-> JNum(1)]),
    Elem("SM_OP_FS_WRITE",
         [dest |-> JNum(2), path |-> JNum(1), content |-> JNum(3), mode |-> JNum(0)]),
    Elem("SM_OP_FS_READ", [dest |-> JNum(3), path |-> JNum(1)]),
    Elem("SM_OP_FS_UNPACK", [tar_path |-> JNum(1), dest |-> JNum(3)]),
    Elem("SM_OP_FS_HASH", [dest |-> JNum(3), path |-> JNum(1)]),
    Elem("SM_OP_FS_LIST", [dest |-> JNum(3), path |-> JNum(1)]),
    J_Eq(4, 0, 1),
    J_Not(4, 0),
    Elem("SM_OP_AND", [dest |-> JNum(4), lhs |-> JNum(1), rhs |-> JNum(0)]),
    Elem("SM_OP_OR", [dest |-> JNum(5), lhs |-> JNum(0), rhs |-> JNum(1)]),
    J_IndexSelect(5, 1, 0),
    J_RandomRange(6, 7, 0),
    J_PathJoin(6, 1, 3),
    Elem("SM_OP_RANDOM_WALK", [dest |-> JNum(6), root |-> JNum(1), depth |-> JNum(0)]),
    Elem("SM_OP_DIR_CONTAINS", [dest |-> JNum(7), a |-> JNum(1), b |-> JNum(3)]),
    Elem("SM_OP_RAND_SEED", [seed |-> JNum(3)]),
    J_Report(<< 0 >>),
    J_Report(<< 2, 0, 1 >>),
    J_Return(7) }

CodecRecipes ==
  {JArr(a) : a \in UNION {[1 .. n -> CodecElems] : n \in 1 .. MaxRecipeLen}}
    \cup {JObj(<< >>)}

InitCodec ==
  /\ regs = [i \in RegIdx |-> NULL]
  /\ heap = << >>
  /\ job_done = FALSE
  /\ job_value = 0
  /\ jobStart = [regs |-> regs, heap |-> heap, value |-> 0]
  /\ last = [ins |-> NoInstr, regs |-> regs, nlog |-> 0]
  /\ pool \in {{r} : r \in CodecRecipes}
  /\ budget = 1
  /\ nodes = << >>
  /\ head = 0
  /\ tail = 0
  /\ running = TRUE
  /\ wpc = "top"
  /\ wj = 0
  /\ cur = << >>
  /\ current_ctx = FALSE
  /\ cond_wake = FALSE
  /\ done_wake = FALSE
  /\ cpc = "idle"
  /\ wait_value = 0
  /\ got = NULL
  /\ crashed = FALSE
  /\ submitted = << >>
  /\ started = << >>
  /\ finished = {}
  /\ result = << >>
  /\ doneCount = 0
  /\ fsLog = << >>
  /\ outs = << >>
  /\ execd = 0
  /\ waitFor = 0
  /\ serial = TRUE
  /\ lastWait = [ret |-> FALSE, job |-> 0, value |-> 0, fin |-> FALSE,
                 again |-> FALSE, prev |-> 0]
  /\ get_idx = 0
  /\ dpc = "off"
  /\ conn = NoConn
  /\ nsess = 0
  /\ answers = << >>
  /\ sink = 0
  /\ resp = << >>
  /\ reports = << >>
  /\ stopAt = [called |-> FALSE, wpc |-> "", wj |-> 0, head |-> 0]

SpecCodec == InitCodec /\ [][NextVM]_vars

(* ------------------------------------------ three-session specification *)

\* The daemon serving up to MaxSerial connections one after another.
NextSerial ==
  \/ \E hs \in HsMsgs, rcp \in RcpMsgs : D_AcceptWithin(MaxSerial, hs, rcp)
  \/ D_Handshake
  \/ D_Recipe
  \/ D_Submit
  \/ D_SubmitFail
  \/ D_Respond
  \/ sm_wait_locked
  \/ sm_wait_wake
  \/ W_Wait
  \/ W_Resume
  \/ W_Dequeue
  \/ W_Exec
  \/ W_Post
  \/ W_Free

SpecSerial == InitD /\ [][NextSerial]_vars

(* ================================================================ claims *)

IsPrefix(a, b) == Len(a) <= Len(b) /\ SubSeq(b, 1, Len(a)) = a

\* C1: an sm_wait called after sm_submit(ctx, J) returns only once the
\* worker has finished executing J, and yields J's completion value.  Stated
\* for the most favourable client, one that submits a job only after the
\* sm_wait for the job before has returned.
C1_WaitYieldsOwnJob ==
  (serial /\ lastWait.ret /\ lastWait.job /= 0)
    => (lastWait.fin /\ lastWait.value = result[lastWait.job])

\* C2: between the dequeue of a job and the next dequeue, job_done is set
\* and done_cond signalled exactly once.
C2_SignalsOnce ==
  /\ doneCount <= 1
  /\ (wpc = "free" => doneCount = 1)

\* C3: jobs are dequeued in the order they were enqueued, none twice and
\* none skipped; a job is started only after every job before it has
\* finished; when the worker exits every submitted job has run.
C3_FifoOrder ==
  /\ IsPrefix(started, submitted)
  /\ \A k \in 1 .. (Len(started) - 1) : started[k] \in finished
  /\ (wpc = "exited" =>
        (started = submitted /\ \A k \in DOMAIN started : started[k] \in finished))

\* C3 witness: a job that was enqueued behind another job has been run, and
\* the worker has exited with all MaxJobs jobs executed.
C3_Witness ==
  /\ wpc = "exited"
  /\ Len(started) >= 2
  /\ \E a \in DOMAIN nodes : nodes[a].next /= 0 /\ nodes[a].next \in finished

(* ------------------------------------------------- interpreter claims *)

\* The instruction list of the job the worker holds.
Instr == IF wj = 0 THEN << >> ELSE nodes[wj].instr

HasPayload(ins) == ~IsNullData(ins.data)

IsReturn(ins) == ins.op = "RETURN"

RemoveAt(s, i) == SubSeq(s, 1, i - 1) \o SubSeq(s, i + 1, Len(s))

\* sm_execute has returned for the job the worker holds.
JobEnded == wj /= 0 /\ wpc \in {"post", "free"}

\* The fs_utils.h calls made by the last executed instruction.
StepCalls == SubSeq(fsLog, last.nlog + 1, Len(fsLog))

\* The last executed instruction did not end the loop: cur is the list
\* after it.
Continued == cur = SubSeq(Instr, execd + 1, Len(Instr))

\* C4: when RETURN v has been executed the job is over with completion
\* value v: sm_execute has returned with job_value = v before the worker's
\* post section, the registers are those RETURN found, the rest of the list
\* is dropped, and no instruction executed so far came after a RETURN.
C4_ReturnHaltsWithValue ==
  /\ \A k \in 1 .. (execd - 1) : wj /= 0 => ~IsReturn(Instr[k])
  /\ (wj /= 0 /\ IsReturn(last.ins) /\ HasPayload(last.ins)) =>
       /\ wpc \in {"post", "free"}
       /\ cur = << >>
       /\ Instr[execd] = last.ins
       /\ regs = last.regs
       /\ result[wj] = last.ins.data.value
       /\ (wpc = "post" => (job_done /\ job_value = last.ins.data.value))

\* C4 witness: a RETURN 3 in first place of a two-instruction list has ended
\* the job with value 3, on registers an earlier job had filled.
C4_Witness ==
  /\ wpc = "post"
  /\ IsReturn(last.ins) /\ HasPayload(last.ins)
  /\ execd = 1 /\ Len(Instr) = 2
  /\ job_value = 3
  /\ regs[0] = IntV(5)

\* C5: a job whose list holds no RETURN completes with value 0, whatever
\* job_value an earlier job left.
C5_NoReturnYieldsZero ==
  (wj /= 0 /\ wpc = "free" /\ \A k \in DOMAIN Instr : ~IsReturn(Instr[k]))
    => (job_value = 0 /\ result[wj] = 0)

\* C5 witness: a job without RETURN that executed an instruction has
\* completed with 0 where the job before had left 7.
C5_Witness ==
  /\ wj /= 0 /\ wpc = "free"
  /\ \A k \in DOMAIN Instr : ~IsReturn(Instr[k])
  /\ jobStart.value = 7
  /\ execd >= 1
  /\ job_value = 0

\* C6 as stated: a list R followed by RETURN v completes with value v, for
\* every R.
C6_TrailingReturnAnyPrefix ==
  (wj /= 0 /\ wpc = "post" /\ Len(Instr) >= 1
     /\ IsReturn(Instr[Len(Instr)]) /\ HasPayload(Instr[Len(Instr)]))
    => job_value = Instr[Len(Instr)].data.value

\* C6 amended: a list R that holds no RETURN instruction, followed by
\* RETURN v, completes with value v when its execution ends.
C6_TrailingReturn ==
  (wj /= 0 /\ wpc = "post" /\ Len(Instr) >= 1
     /\ IsReturn(Instr[Len(Instr)]) /\ HasPayload(Instr[Len(Instr)])
     /\ \A k \in 1 .. (Len(Instr) - 1) : ~IsReturn(Instr[k]))
    => (job_done /\ job_value = Instr[Len(Instr)].data.value
          /\ result[wj] = Instr[Len(Instr)].data.value)

\* C6 witness: R changed a register and the RETURN 7 after it gave 7.
C6_Witness ==
  /\ wj /= 0 /\ wpc = "post" /\ Len(Instr) = 2
  /\ IsReturn(Instr[2]) /\ HasPayload(Instr[2]) /\ ~IsReturn(Instr[1])
  /\ regs /= jobStart.regs
  /\ job_value = 7

\* The opcodes whose payload fields other than the LOAD_CONST literal are
\* register indices.
RegOps == {"LOAD_CONST", "RANDOM_RANGE"} \cup PrimOps \cup LogicOps

BadIndex(ins) ==
  /\ ins.op \in RegOps
  /\ HasPayload(ins)
  /\ \E f \in (DOMAIN ins.data) \ {"value"} : ins.data[f] \notin 0 .. 7

\* C7: when a job has ended, for every instruction I of its list with an
\* operand index outside [0, 8) the registers are those of running the list
\* without I from the same start against the same environment, and I, if
\* reached, did not end the job: the instruction after it was executed.
C7_BadIndexIsSkipped ==
  JobEnded =>
    \A i \in DOMAIN Instr :
      BadIndex(Instr[i]) =>
        /\ regs = RunList(RemoveAt(Instr, i), jobStart.regs, jobStart.heap, outs).regs
        /\ ((i <= execd /\ i < Len(Instr)) => execd > i)

\* C7 witness: an instruction with an index outside [0, 8) was executed in
\* first place and the instruction after it changed a register.
C7_Witness ==
  /\ JobEnded
  /\ Len(Instr) = 2 /\ BadIndex(Instr[1]) /\ execd = 2
  /\ regs /= jobStart.regs

\* The array elements the decoder does not turn into an instruction with a
\* payload.
Refused(item) ==
  LET p == ParseItem(item, << >>)
  IN ~p.keep \/ IsNullData(p.ins.data)

\* C8: an element with an unknown opcode or an absent or ill-typed data
\* field counts for nothing: when the job has completed, registers and
\* completion value are those of the message without that element, decoded
\* and run from the same start against the same environment.
C8_RefusedElementSkipped ==
  (wj /= 0 /\ wpc = "free") =>
    \A i \in DOMAIN nodes[wj].json.a :
      Refused(nodes[wj].json.a[i]) =>
        LET p == proto_parse_recipe(JArr(RemoveAt(nodes[wj].json.a, i)),
                                    nodes[wj].heap0)
            run == RunList(p.list, jobStart.regs, p.heap, outs)
        IN p.list /= << >> =>
             (regs = run.regs /\ job_value = Completion(run))

\* An operand the case reads as `const char *` holds a non-null integer.
WrongKind(ins, rs) ==
  /\ ins.op \in PrimOps
  /\ HasPayload(ins)
  /\ OperandsValid(ins)
  /\ \E i \in DOMAIN StrInputs(ins.op) :
       LET v == rs[ins.data[StrInputs(ins.op)[i]]]
       IN ~IsStr(v) /\ v /= NULL

\* C9: an instruction that finds an integer in a register it reads as a
\* string leaves the registers alone, calls no function of fs_utils.h with
\* that integer, and does not end the program.
C9_WrongKindIsNoOp ==
  WrongKind(last.ins, last.regs) =>
    /\ regs = last.regs
    /\ \A c \in DOMAIN StepCalls :
         \A k \in DOMAIN StepCalls[c].args : IsStr(StepCalls[c].args[k])
    /\ ~crashed
    /\ Continued

\* The opcodes of lines 55-143.
FsOps ==
  {"FS_CREATE", "FS_DELETE", "FS_COPY", "FS_MOVE", "FS_WRITE", "FS_READ",
   "FS_UNPACK", "FS_HASH", "FS_LIST"}

\* The last executed instruction is a filesystem opcode with valid indices
\* that found a null input register.
FsNullInput ==
  /\ last.ins.op \in FsOps /\ HasPayload(last.ins) /\ OperandsValid(last.ins)
  /\ \E i \in DOMAIN StrInputs(last.ins.op) :
       last.regs[last.ins.data[StrInputs(last.ins.op)[i]]] = NULL

\* The last executed instruction is a filesystem opcode with valid indices
\* whose primitive was called and reported failure.
FsFailed ==
  /\ last.ins.op \in FsOps /\ HasPayload(last.ins) /\ OperandsValid(last.ins)
  /\ StepCalls /= << >>
  /\ StepCalls[1].ret = "fail"

C19_GetRegExcludesWorker == cpc = "getreg" => wpc /= "exec"

\* C20: the registers change only in a step of sm_execute: not between the
\* end of one job and the start of the next, and not in sm_submit, sm_wait
\* or sm_get_reg.
C20_RegistersPersist ==
  [][regs' /= regs => (wpc = "exec" /\ wpc' \in {"exec", "post"} /\ cpc' = cpc)]_vars

\* C20 witness: a second job starts on the 5 the first job left in register
\* 0, which sm_get_reg has read in between.
C20_Witness ==
  /\ Len(started) >= 2 /\ wpc = "exec" /\ execd = 0
  /\ started[1] \in finished
  /\ regs[0] = IntV(5)
  /\ got = IntV(5)

\* C17: sm_thread_stop returns only after the worker has exited; the worker
\* exits with no job in hand and every job it started run to its end, each
\* having signalled completion before its record is freed; and once
\* sm_thread_stop has been called it returns.
C17_StopWaitsForJob ==
  /\ [](/\ (cpc = "stopped" => wpc = "exited")
        /\ (wpc = "exited" => (wj = 0 /\ \A k \in DOMAIN started : started[k] \in finished))
        /\ (wpc = "free" => doneCount >= 1))
  /\ ((cpc = "join") ~> (cpc = "stopped"))

\* C17 witness: sm_thread_stop was called while a job was executing, with
\* another one queued behind it; it has returned, and both jobs have run.
C17_Witness ==
  /\ cpc = "stopped"
  /\ stopAt.wpc = "exec"
  /\ stopAt.wj \in finished
  /\ \E k \in DOMAIN started : started[k] > stopAt.wj /\ started[k] \in finished


\* What the first message of the open connection is, in the claim's words:
\* the text of a JSON object holding a string "hello" and a number "version".
WellFormedHello(m) ==
  /\ m.raw = "json" /\ m.v.t = "obj"
  /\ "hello" \in DOMAIN m.v.f /\ m.v.f["hello"].t = "str"
  /\ "version" \in DOMAIN m.v.f /\ m.v.f["version"].t = "num"

\* The handshake of the connection has been answered.
Answered == Len(conn.log) >= 2

\* The status the handshake was answered with.
SentStatus == conn.log[2].frame.json.f["status"].n

\* C11: the handshake is accepted exactly when the first message is a JSON
\* object holding a string "hello" and a number "version"; the reply is
\* status 0 when it is accepted and status -1 otherwise, a missing or
\* unparsable message included.
C11_HandshakeAcceptance ==
  Answered =>
    /\ conn.log[1] = Ev("recv", conn.hs, NoFrame)
    /\ conn.log[2] = Ev("send", NoMsg, StatusFrame(SentStatus))
    /\ conn.hs_ok <=> WellFormedHello(conn.hs)
    /\ SentStatus = (IF WellFormedHello(conn.hs) THEN 0 ELSE -1)
    /\ (dpc = "recipe" => conn.hs_ok)

C11_Witness ==
  /\ dpc = "recipe" /\ conn.open /\ conn.hs_ok /\ Answered /\ SentStatus = 0
  /\ nsess = 2 /\ WellFormedHello(conn.hs)

\* The handler takes a step out of phase ph.
HandlerStep(ph) == dpc = ph /\ dpc' /= ph

\* Positions of the entries of kind ev in the connection's history.
LogPos(ev) == {k \in DOMAIN conn.log : conn.log[k].ev = ev}

\* The history of a connection closed on a rejected handshake.
RejectedLog(m) ==
  << Ev("recv", m, NoFrame), Ev("send", NoMsg, StatusFrame(-1)),
     Ev("close", NoMsg, NoFrame) >>

\* C12: the handler's step on a rejected handshake sends status -1 and
\* closes the connection, reads no recipe message, submits no job and leaves
\* the register file alone; in every session the status reply is sent before
\* the recipe message is read.
C12_RejectedHandshakeCloses ==
  /\ [][(HandlerStep("handshake") /\ ~WellFormedHello(conn.hs)) =>
          /\ dpc' = "accept" /\ ~conn'.open
          /\ conn'.log = RejectedLog(conn.hs)
          /\ UNCHANGED << regs, heap, nodes, head, tail, submitted, sink, resp >>]_vars
  /\ [](\A k \in LogPos("recv") : k > 1 =>
          /\ conn.log[k].msg = conn.rcp
          /\ \E i \in 1..(k - 1) : conn.log[i].frame.kind = "status")
  /\ []((~conn.hs_ok /\ Answered) => (dpc = "accept" /\ conn.log = RejectedLog(conn.hs)))

C12_Witness ==
  /\ dpc = "accept" /\ ~conn.open /\ nsess = 2
  /\ conn.hs.raw = "json" /\ conn.log = RejectedLog(conn.hs)
  /\ regs[0] = IntV(5) /\ Len(submitted) = 1

\* The message is the text of a JSON array.
IsArrayMsg(m) == m.raw = "json" /\ m.v.t = "arr"

\* C15: when the second message of a session is read and is not a JSON
\* array, the handler closes the connection, having sent nothing after the
\* status reply and submitted no job; registers and queue are unchanged.
C15_NonArrayRecipeCloses ==
  [][(HandlerStep("recipe") /\ proto_recv_json(conn.rcp) /\ ~IsArrayMsg(conn.rcp)) =>
       /\ dpc' = "accept" /\ ~conn'.open
       /\ conn'.log = conn.log \o << Ev("recv", conn.rcp, NoFrame),
                                    Ev("close", NoMsg, NoFrame) >>
       /\ LogPos("send")' = {2} /\ LogPos("submit")' = {}
       /\ UNCHANGED << regs, heap, nodes, head, tail, submitted, sink, resp, answers >>]_vars

C15_Witness ==
  /\ dpc = "accept" /\ ~conn.open /\ conn.hs_ok
  /\ conn.rcp = Msg(J_Return(7)) /\ Len(conn.log) = 4 /\ conn.log[4].ev = "close"
  /\ nsess = 2 /\ Len(submitted) = 1 /\ regs[0] = IntV(5)

\* The elements of a recipe array that parse into an instruction, in order.
Parsing(m) ==
  IF IsArrayMsg(m)
  THEN SelectSeq(m.v.a, LAMBDA e : ParseItem(e, << >>).keep)
  ELSE << >>

\* The recipe message of the connection has been dealt with and the
\* connection closed.
RecipeClosed ==
  /\ ~conn.open /\ conn.hs_ok /\ LogPos("recv") = {1, 3}
  /\ proto_recv_json(conn.rcp)

\* A response array was sent on the connection.
Responded == \E k \in DOMAIN conn.log : conn.log[k].frame.kind = "resp"

\* The job submitted for the connection.
JobOf(n) == CHOOSE j \in DOMAIN nodes : nodes[j].sess = n

C18_SessionEnds ==
  /\ (dpc /= "accept") ~> (dpc = "accept" /\ ~conn.open)
  /\ [](dpc = "accept" => ~conn.open)

C18_Witness ==
  /\ dpc = "accept" /\ ~conn.open /\ nsess = 2 /\ Len(answers) = 2
  /\ Len(conn.log) = 6 /\ conn.log[6].ev = "close"
  /\ conn.rcp = Msg(JArr(<< J_LoadInt(0, 5), J_Report(<< 0 >>) >>))

\* The events the REPORT instructions of job j have produced, in order.
EventsOf(j) ==
  LET mine == SelectSeq(reports, LAMBDA r : r.job = j)
  IN [i \in DOMAIN mine |-> mine[i].ev]

\* C13: the response of a session whose job has ended is the report events
\* of that job, in the order they were produced, followed by one
\* {"status":0}.
C13_ResponseHoldsJobEvents ==
  \A k \in DOMAIN answers :
    answers[k].job \in finished => answers[k].arr = EventsOf(answers[k].job) \o << report_status(0) >>

\* A REPORT with valid operands is at the head of the running job.
AtReport ==
  /\ wpc = "exec" /\ cur /= << >> /\ Head(cur).op = "REPORT"
  /\ ~IsNullData(Head(cur).data)
  /\ \A i \in DOMAIN Head(cur).data.regs : reg_valid(Head(cur).data.regs[i])

\* e maps each index of the list idxs to the integer value rs holds there.
IsEventOf(e, idxs, rs) ==
  /\ e.t = "obj"
  /\ DOMAIN e.f = {ToString(idxs[i]) : i \in DOMAIN idxs}
  /\ \A i \in DOMAIN idxs : e.f[ToString(idxs[i])] = JNum(WordOf(rs[idxs[i]]))

HeldStrings == {regs[i].a : i \in {r \in RegIdx : IsStr(regs[r])}}

\* C21: every string a primitive allocated is held by a register or has
\* been released.
C21_OwnedStringsReleased ==
  \A a \in DOMAIN heap :
    heap[a].src = "fs" => (a \in HeldStrings \/ heap[a].freed)

\* The literal strings of the instruction list of job j.
Literals(j) ==
  {nodes[j].instr[i].data.value.a :
     i \in {k \in DOMAIN nodes[j].instr :
              /\ nodes[j].instr[k].op = "LOAD_CONST"
              /\ ~IsNullData(nodes[j].instr[k].data)
              /\ IsStr(nodes[j].instr[k].data.value)}}

\* C22: once the worker is done with a job its instruction list and the
\* literal strings the list owns are freed, and no list is freed while it is
\* executed or while a register points to one of its literals.
C22_InstructionListFreed ==
  \A j \in DOMAIN nodes :
    /\ nodes[j].freed =>
         (nodes[j].instr_freed /\ \A a \in Literals(j) : heap[a].freed)
    /\ nodes[j].instr_freed =>
         (j /= wj /\ Literals(j) \cap HeldStrings = {})

(* --------------------------------------------------------- daemon claims *)

\* The handler's step on an sm_submit that queued nothing.
SubmitDropped == dpc = "submit" /\ dpc' = "accept"

\* C23: when sm_submit cannot allocate the job record, the queue, the done
\* flag and the completion value stay as they were and the worker is not
\* woken; the handler closes the connection, sends no response array and
\* does not call sm_wait.
C23_FailedSubmitDropped ==
  [][SubmitDropped =>
       /\ UNCHANGED << head, tail, nodes, job_done, job_value, submitted >>
       /\ UNCHANGED << cond_wake, wpc, wj >>
       /\ ~conn'.open
       /\ conn'.log = conn.log \o << Ev("nosubmit", NoMsg, NoFrame),
                                    Ev("close", NoMsg, NoFrame) >>
       /\ ~Responded'
       /\ UNCHANGED << cpc, waitFor, answers >>]_vars

C23_Witness ==
  /\ dpc = "accept" /\ ~conn.open /\ LogPos("nosubmit") /= {} /\ ~Responded
  /\ nsess = 2 /\ Len(submitted) = 1 /\ job_done /\ job_value = 7 /\ wpc = "waitcond"

(* -------------------------------------------------- single-opcode claims *)

\* The job that ended was the list of n instructions, each ins.
RanTimes(ins, n) == JobEnded /\ ~crashed /\ Instr = [i \in 1 .. n |-> ins]

\* Every register but d is as it was when the job started.
OthersKept(d) == \A i \in RegIdx \ {d} : regs[i] = jobStart.regs[i]

\* C24: EQ dst, a, a stores 1 in dst for every register a and destination
\* dst in [0, 8), whatever word register a held.
C24_EqSelfIsTrue ==
  \A d \in RegIdx, a \in RegIdx :
    RanTimes([op |-> "EQ", data |-> [dest |-> d, lhs |-> a, rhs |-> a]], 1)
      => (regs[d] = IntV(1) /\ OthersKept(d))

C24_Witness ==
  /\ RanTimes([op |-> "EQ", data |-> [dest |-> 4, lhs |-> 4, rhs |-> 4]], 1)
  /\ IsStr(jobStart.regs[4]) /\ heap[jobStart.regs[4].a].s = << >>
  /\ regs[4] = IntV(1)

\* 1 when the word is non-zero, else 0.
Truthiness(v) == IntV(IF WordOf(v) /= 0 THEN 1 ELSE 0)

\* 0 when the word is non-zero, else 1.
Negation(v) == IntV(IF WordOf(v) /= 0 THEN 0 ELSE 1)

NotIns(d, a) == [op |-> "NOT", data |-> [dest |-> d, src |-> a]]

\* C25 as stated: after NOT dst, a twice, dst holds the truthiness of the
\* word register a held before, for dst equal to or different from a.
C25_NotTwiceIsTruthiness ==
  \A d \in RegIdx, a \in RegIdx :
    RanTimes(NotIns(d, a), 2) => regs[d] = Truthiness(jobStart.regs[a])

\* C25, amended: NOT dst, a run a second time changes nothing when dst is
\* not a, dst holding the negation of the truthiness of a after the first
\* and after the second run; when dst is a, the register holds the negation
\* after the first run and the truthiness of its initial word after the
\* second.  No other register changes.
C25_NotTwice ==
  \A d \in RegIdx, a \in RegIdx :
    /\ RanTimes(NotIns(d, a), 2) =>
         /\ regs[d] = (IF d = a THEN Truthiness(jobStart.regs[a])
                       ELSE Negation(jobStart.regs[a]))
         /\ OthersKept(d)
         /\ d /= a => regs = last.regs
    /\ (wpc = "exec" /\ execd = 1 /\ Instr = << NotIns(d, a), NotIns(d, a) >>) =>
         regs[d] = Negation(jobStart.regs[a])

C25_Witness ==
  /\ RanTimes(NotIns(3, 1), 2) /\ IsStr(jobStart.regs[1])
  /\ regs[3] = IntV(0) /\ last.regs[3] = IntV(0) /\ jobStart.regs[3] = NULL

RangeIns(d, lo, hi) == [op |-> "RANDOM_RANGE", data |-> [dest |-> d, min |-> lo, max |-> hi]]

Least(x, y) == IF x <= y THEN x ELSE y

Greatest(x, y) == IF x <= y THEN y ELSE x

\* C26: with integers x and y in the min and max registers, RANDOM_RANGE
\* stores an integer v with min(x, y) <= v <= max(x, y) in dst, and x when
\* x = y; no other register changes.
C26_RandomRangeWithinBounds ==
  \A d \in RegIdx, lo \in RegIdx, hi \in RegIdx :
    (/\ RanTimes(RangeIns(d, lo, hi), 1)
     /\ ~IsStr(jobStart.regs[lo]) /\ ~IsStr(jobStart.regs[hi]))
      => LET x == jobStart.regs[lo].n
             y == jobStart.regs[hi].n
         IN /\ ~IsStr(regs[d])
            /\ Least(x, y) <= regs[d].n /\ regs[d].n <= Greatest(x, y)
            /\ x = y => regs[d].n = x
            /\ OthersKept(d)

C26_Witness ==
  /\ RanTimes(RangeIns(3, 0, 2), 1)
  /\ jobStart.regs[0] = IntV(5) /\ jobStart.regs[2] = IntV(-3)
  /\ outs /= << >> /\ outs[1].r = 2 /\ regs[3] = IntV(-1)

JoinIns(d, b, n) == [op |-> "PATH_JOIN", data |-> [dest |-> d, base |-> b, name |-> n]]

\* The characters of the string a register of the job's start pointed to.
StartStr(i) == jobStart.heap[jobStart.regs[i].a].s

\* The characters of the string register i points to now.
NowStr(i) == heap[regs[i].a].s

\* s without its final '/', if it has one.
Unslashed(s) ==
  IF Len(s) > 0 /\ s[Len(s)] = "/" THEN SubSeq(s, 1, Len(s) - 1) ELSE s

\* PATH_JOIN dst, b, n has run on two strings.
Joined(d, b, n) ==
  /\ RanTimes(JoinIns(d, b, n), 1)
  /\ IsStr(jobStart.regs[b]) /\ IsStr(jobStart.regs[n])

SelectIns(d, l, k) ==
  [op |-> "INDEX_SELECT", data |-> [dest |-> d, list |-> l, index |-> k]]

\* The newline-delimited segments of s: the pieces between newlines, the
\* piece after the last newline counted only when it is not empty.
RECURSIVE Segments(_)
Segments(s) ==
  IF s = << >> THEN << >>
  ELSE LET nls == {i \in DOMAIN s : s[i] = "\n"}
       IN IF nls = {} THEN << s >>
          ELSE LET n == CHOOSE i \in nls : \A j \in nls : i <= j
               IN << SubSeq(s, 1, n - 1) >> \o Segments(SubSeq(s, n + 1, Len(s)))

\* INDEX_SELECT dst, l, k has run on a list string.
Selected(d, l, k) ==
  /\ RanTimes(SelectIns(d, l, k), 1)
  /\ IsStr(jobStart.regs[l])

\* The index the instruction reads: the word of the register as a size_t,
\* a negative word wrapping to a value beyond every segment count.
IndexWord(k) == ToSizeT(WordOf(jobStart.regs[k]))

\* C28: INDEX_SELECT stores in dst a new string holding the k-th segment of
\* the list, and stores empty (the null word) when k is not below the
\* number of segments, a negative word in the index register included; no
\* other register changes.
C28_IndexSelectKthSegment ==
  \A d \in RegIdx, l \in RegIdx, k \in RegIdx :
    Selected(d, l, k) =>
      LET segs == Segments(StartStr(l))
          idx == IndexWord(k)
      IN /\ IF idx < Len(segs)
            THEN IsStr(regs[d]) /\ regs[d].a = Len(jobStart.heap) + 1
                   /\ NowStr(d) = segs[idx + 1]
            ELSE regs[d] = NULL
         /\ OthersKept(d)

C28_Witness ==
  /\ Selected(7, 1, 3) /\ StartStr(1) = << "a", "\n", "\n", "b" >>
  /\ jobStart.regs[3] = IntV(1) /\ IsStr(regs[7]) /\ NowStr(7) = << >>

(* ---------------------------------------------------------- codec claims *)

\* The payload field that holds the "data" field named f.
StructField(op, f) ==
  IF op = "SM_OP_DIR_CONTAINS" /\ f = "a" THEN "dir_a"
  ELSE IF op = "SM_OP_DIR_CONTAINS" /\ f = "b" THEN "dir_b"
  ELSE f

\* Instruction ins carries the opcode and the operands of array element e;
\* h is the heap after decoding, n0 the number of strings before it.
Carries(ins, e, h, n0) ==
  LET name == e.f.op.s
      data == e.f.data.f
  IN /\ "SM_OP_" \o ins.op = name
     /\ ~IsNullData(ins.data)
     /\ IF name = "SM_OP_LOAD_CONST"
        THEN /\ ins.data.dest = data.dest.n
             /\ IF IsString(data.value)
                THEN /\ IsStr(ins.data.value)
                     /\ ins.data.value.a > n0
                     /\ h[ins.data.value.a].s = data.value.s
                ELSE ins.data.value = IntV(data.value.n)
        ELSE IF name = "SM_OP_REPORT"
        THEN /\ ins.data.count = Len(data.regs.a)
             /\ \A i \in DOMAIN data.regs.a : ins.data.regs[i] = data.regs.a[i].n
        ELSE /\ DOMAIN ins.data = {StructField(name, f) : f \in DOMAIN data}
             /\ \A f \in DOMAIN data : ins.data[StructField(name, f)] = data[f].n

WellTyped(json) == IsArray(json) /\ \A i \in DOMAIN json.a : json.a[i] \in CodecElems

\* C29: the instruction list decoded from a well-typed recipe array has one
\* instruction per array element, in array order, each with the opcode named
\* by "op" and the operands given in "data".
C29_DecodePreservesRecipe ==
  \A j \in DOMAIN nodes :
    WellTyped(nodes[j].json) =>
      /\ Len(nodes[j].instr) = Len(nodes[j].json.a)
      /\ \A i \in DOMAIN nodes[j].json.a :
           Carries(nodes[j].instr[i], nodes[j].json.a[i], heap, Len(nodes[j].heap0))

C29_Witness ==
  /\ 1 \in DOMAIN nodes
  /\ nodes[1].json.a = << J_LoadStr(1, << "p" >>),
                          Elem("SM_OP_DIR_CONTAINS", [dest |-> JNum(7), a |-> JNum(1), b |-> JNum(3)]) >>
  /\ nodes[1].instr[1].op = "LOAD_CONST" /\ heap[nodes[1].instr[1].data.value.a].s = << "p" >>
  /\ nodes[1].instr[2] = [op |-> "DIR_CONTAINS", data |-> [dest |-> 7, dir_a |-> 1, dir_b |-> 3]]

(* ----------------------------------------------------- serialization claims *)

\* The jobs in the FIFO: enqueued by sm_submit, not yet dequeued by the worker.
Queued == {submitted[i] : i \in DOMAIN submitted} \ {started[i] : i \in DOMAIN started}

\* The jobs queued or executing: enqueued, their sm_execute not yet over.
Unfinished == {submitted[i] : i \in DOMAIN submitted} \ finished

\* C30: in the daemon's connection loop at most one job is queued or
\* executing at any moment, and the FIFO never holds more than one job: the
\* job of a session is over before the job of the next session is submitted.
C30_JobsSerialized ==
  /\ Cardinality(Unfinished) <= 1
  /\ Cardinality(Queued) <= 1

(* ---------------------------------------------------------- shutdown claims *)

\* Every job sm_submit has enqueued has been run to its end.
AllExecuted == \A k \in DOMAIN submitted : submitted[k] \in finished

\* C31: the worker exits only when shutdown has been requested and the
\* queue is empty, every submitted job executed by then; and once
\* sm_thread_stop has been called the worker drains the queue and exits.
C31_QueueDrainedAtExit ==
  /\ [](wpc = "exited" => (~running /\ head = 0 /\ AllExecuted))
  /\ (stopAt.called ~> (wpc = "exited" /\ AllExecuted))

\* C31 witness: sm_thread_stop was called with two jobs in the queue, none
\* of them started; the worker has exited after executing both.
C31_Witness ==
  /\ wpc = "exited"
  /\ stopAt.wpc \in {"top", "waitcond"} /\ stopAt.head = 1
  /\ nodes[1].next = 2
  /\ {1, 2} \subseteq finished

(* ------------------------------------------------------ null-payload claims *)

\* C32: when a RETURN whose payload is absent has been executed the job is
\* over with completion value 0: sm_execute has returned with job_value = 0
\* before the worker's post section, the registers are those RETURN found,
\* and the rest of the list is dropped.
C32_BareReturnHaltsWithZero ==
  (wj /= 0 /\ IsReturn(last.ins) /\ ~HasPayload(last.ins)) =>
    /\ wpc \in {"post", "free"}
    /\ cur = << >>
    /\ Instr[execd] = last.ins
    /\ regs = last.regs
    /\ result[wj] = 0
    /\ job_done /\ job_value = 0

\* C32 witness: a RETURN decoded from an element with no "value", in first
\* place of a two-instruction list, has ended the job with value 0 where the
\* job before had left 7.
C32_Witness ==
  /\ wpc = "post"
  /\ nodes[wj].json.a[1] = Elem("SM_OP_RETURN", << >>)
  /\ IsReturn(last.ins) /\ ~HasPayload(last.ins)
  /\ execd = 1 /\ Len(Instr) = 2
  /\ jobStart.value = 7
  /\ job_done /\ job_value = 0

(* --------------------------------------------------- completion-flag claims *)

\* A step in which sm_submit enqueues a job or the worker dequeues one.
SubmitOrDequeue == submitted' /= submitted \/ started' /= started

\* C33: once job_done is set, it and job_value stay as they are through
\* every step that is neither an sm_submit nor a dequeue; an sm_wait that
\* finds the flag set returns at once with that job_value; and an sm_wait
\* repeated for a finished job returns the value the one before returned.
C33_StickyCompletion ==
  [][/\ (job_done /\ ~SubmitOrDequeue) => (job_done' /\ job_value' = job_value)
     /\ (job_done /\ cpc = "waitlock" /\ cpc' /= cpc) =>
          (cpc' = "idle" /\ wait_value' = job_value /\ lastWait'.ret)
     /\ (cpc = "waitlock" /\ cpc' /= cpc /\ lastWait.ret /\ lastWait.fin
           /\ lastWait.job = waitFor) =>
          (cpc' = "idle" /\ lastWait'.again /\ wait_value' = lastWait.value)]_vars

\* C33 witness: after an sm_wait for the only job has returned 7, a second
\* sm_wait, called with nothing submitted in between, has returned 7 again.
C33_Witness ==
  /\ cpc = "idle" /\ wait_value = 7
  /\ Len(submitted) = 1 /\ 1 \in finished
  /\ lastWait.again /\ lastWait.value = 7 /\ lastWait.prev = 7


(* ------------------------------------------------------- queue-shape claims *)

\* The job records linked from h through next, at most n of them.
RECURSIVE Chain(_, _)
Chain(h, n) ==
  IF h = 0 \/ n = 0 THEN << >>
  ELSE << h >> \o Chain(nodes[h].next, n - 1)

\* The jobs enqueued and not yet dequeued, in the order of their sm_submit.
Waiting == SubSeq(submitted, Len(started) + 1, Len(submitted))

\* C34: whenever the queue mutex is free, head is NULL iff tail is NULL,
\* the records linked from head are the jobs enqueued and not yet dequeued,
\* in order, none of them freed, the last of them being tail with a NULL
\* next; and the worker takes a job only from a non-empty queue, before and
\* after shutdown is requested.
C34_QueueWellFormed ==
  /\ [](LET c == Chain(head, Cardinality(DOMAIN nodes) + 1)
        IN /\ (head = 0) <=> (tail = 0)
           /\ c = Waiting
           /\ \A i \in DOMAIN c : ~nodes[c[i]].freed
           /\ head /= 0 => (c[Len(c)] = tail /\ nodes[tail].next = 0))
  /\ [][started' /= started =>
          (head /= 0 /\ started' = Append(started, head) /\ wj' = head)]_vars

\* C34 witness: shutdown was requested with two jobs queued; the worker has
\* taken the first, and the second is both head and tail.
C34_Witness ==
  /\ ~running /\ stopAt.head = 1
  /\ started = << 1 >> /\ wj = 1
  /\ head = 2 /\ tail = 2 /\ nodes[2].next = 0
====
